---- MODULE Spec2Model ----
(***************************************************************************)
(* State-machine model of the DOCA RDMA context / connection / task API    *)
(* declared in libs/include/libdoca_sdk_rdma_dev/doca_rdma.h.  The header  *)
(* carries the contract of every call in its documentation (the states in  *)
(* which the call is legal and the error it returns otherwise); the model  *)
(* follows those contracts.  The generic context, task and progress-engine *)
(* calls (doca_ctx_start, doca_ctx_stop, doca_task_submit, doca_task_free, *)
(* doca_pe_progress) are declared in doca_ctx.h / doca_pe.h, which the     *)
(* RDMA header only refers to; they are modelled from the design notes.    *)
(***************************************************************************)
EXTENDS Integers, Sequences, FiniteSets, TLC

\* ------------------------------------------------------------------ bounds
MaxTasks == 2        \* largest pool size (num_tasks) an application configures
MaxConn == 2         \* most connection objects a context hands out over one run
MaxQueueSize == 3    \* largest send queue size an application asks for
MaxLen == 2          \* longest message, and largest receive buffer, in bytes
MaxWord == 1         \* largest 4-byte word of the 8-byte values of an atomic task
MaxFetchAdd == 3     \* most atomic fetch and add tasks in flight on one location
MaxThreads == 2      \* CUDA threads that set the status of one semaphore item
MaxOps == 3          \* operations the threads of a kernel enqueue in one GPU queue
MaxRxPkts == 2       \* largest max_rx_pkts given to a receive call
MaxTimeout == 2      \* largest timeout_ns given to a receive call, in clock ticks
MaxRounds == 2       \* times a kernel fills the descriptor ring of a GPU queue

\* --------------------------------------------------------------- constants
Sides == {"client", "server"}

DOCA_SUCCESS == "DOCA_SUCCESS"
DOCA_ERROR_BAD_STATE == "DOCA_ERROR_BAD_STATE"
DOCA_ERROR_FULL == "DOCA_ERROR_FULL"
DOCA_ERROR_NO_MEMORY == "DOCA_ERROR_NO_MEMORY"

\* Lifecycle of a context; NoCtx is a destroyed instance.
CtxStates == {"Idle", "Starting", "Running", "Stopping", "Stopped"}
NoCtx == "NoCtx"

\* The properties with a setter that is legal only before doca_ctx_start().
PropNames == {"send_queue_size", "recv_queue_size", "mtu", "transport_type",
              "permissions", "gid_index", "sl", "max_num_connections"}

\* Task kinds: a send takes a connection argument, a receive does not.
Kinds == {"send", "receive"}
Peer(s) == IF s = "client" THEN "server" ELSE "client"

TaskIds == 1..MaxTasks

VARIABLES
    kind,       \* kind[s]: the task kind the application of side s works with
    ctx,        \* ctx[s]: lifecycle state of the context of side s, or NoCtx
    props,      \* props[s][p]: value of property p (0 = default)
    numTasks,   \* numTasks[s]: pool size given to *_set_conf (0 = not configured)
    task,       \* task[s][t]: task t of the pool of side s
    conn,       \* conn[s][c]: connection c as seen by side s
    wire,       \* wire[s][c]: transport events on their way to side s, in order
    listening,  \* listening[s]: side s listens for connection requests
    inPoll,     \* inPoll[s]: a doca_pe_progress() call of side s is executing
    cb,         \* cb[s]: the callback doca_pe_progress() is running, or NoCb
    lastCall,   \* the last API call made and what it returned
    atomic,     \* the atomic compare and swap task of the client, its local
                \* result_buf and the 8 bytes of the peer's memory it works on
    fadd,       \* the atomic fetch and add tasks of the client and the 8 bytes
                \* of the peer's memory they work on
    sem,        \* an item of a GPU semaphore and the threads that set its status
    queue,      \* a GPU queue (RDMA, DMA or Ethernet send queue) and its threads
    rxq,        \* an Ethernet receive queue and the CUDA block that receives on it
    reg         \* a register field and the doca_bitfield.h macro applied to it

vars == <<kind, ctx, props, numTasks, task, conn, wire, listening, inPoll, cb, lastCall,
          atomic, fadd, sem, queue, rxq, reg>>

\* The variables of the host side RDMA context, which the GPU data path and
\* the semaphore leave alone.
rdmaVars == <<kind, ctx, props, numTasks, task, conn, wire, listening, inPoll, cb, lastCall,
              atomic, fadd>>

NoRxq == [st |-> "-"]

NoReg == [macro |-> "-"]

KindOf(s) == kind[s]

\* The connection objects the contexts can hand out (both ends of connection c
\* carry the same index).
ConnIds == DOMAIN conn["client"]

\* The callback in execution: its kind, the task or connection it is about and
\* the connection user data it was handed (0: the callback takes none).
NoCb == [kind |-> "none", id |-> 0, ud |-> 0]

\* A task slot: st is the ownership state, c the connection it is bound to, hw
\* the outcome the transport has for a submitted task ("none" while it is in
\* flight), ok / err count the success and error completion callbacks of the
\* current submission; buf is the data of the task's buffer (the source data of
\* a send, the received data of a receive), cap the size of the destination
\* buffer of a receive and len its result length.
FreeTask == [st |-> "Pooled", c |-> 0, hw |-> "none", ok |-> 0, err |-> 0,
             buf |-> <<>>, cap |-> 0, len |-> 0]

\* A connection: st is its state on this side, ud the user data attached to it,
\* fresh says that the accept / reject decision was taken in the poll pass that
\* is still executing, req / est / fail / disc count the request, established,
\* failure and disconnection callbacks delivered for it.
NoConn == [st |-> "None", ud |-> 0, fresh |-> FALSE,
           req |-> 0, est |-> 0, fail |-> 0, disc |-> 0]

\* The record of an API call: who called what, the lifecycle state the context
\* was in, the task or connection it was about (0: none), the state of the
\* connection the call depends on ("-": none) and the result; val is the
\* property value a setter was given or a getter wrote to its out parameter
\* (0: none).
CallOn(s, op, pre, id, cst, code) ==
    [side |-> s, op |-> op, pre |-> pre, id |-> id, cst |-> cst, code |-> code,
     val |-> 0]

Call(s, op, pre, code) == CallOn(s, op, pre, 0, "-", code)

\* An 8-byte value (uint64_t cmp_data, swap_data, the first 8 bytes of dst_buf
\* and of result_buf), kept as its high and its low 4-byte word.
Words == 0..MaxWord

Value64 == Words \X Words

\* The atomic compare and swap task in its pool, a zeroed result_buf and a
\* zeroed dst_buf in the memory of the peer.
NoAtomic ==
    [st |-> "Pooled", c |-> 0, hw |-> "none", cmp |-> <<0, 0>>, swap |-> <<0, 0>>,
     dst |-> <<0, 0>>, result |-> <<0, 0>>]

\* No fetch and add task, no semaphore, no GPU queue.
NoFetchAdd == [dst |-> <<>>, task |-> <<>>]

NoSem == [status |-> "-", thread |-> <<>>]

NoQueue == [type |-> "-"]

\* The application of side s is able to make an API call: it is either outside
\* doca_pe_progress() or inside a callback that doca_pe_progress() is running.
AppCanCall(s) == ~inPoll[s] \/ cb[s] # NoCb

AppOutsidePoll(s) == ~inPoll[s]


TypeOK ==
    /\ ctx \in [Sides -> CtxStates \cup {NoCtx}]
    /\ numTasks \in [Sides -> 0..MaxTasks]
    /\ listening \in [Sides -> BOOLEAN]
    /\ inPoll \in [Sides -> BOOLEAN]

\* State after doca_rdma_create() on both sides: idle contexts with default
\* properties, no task configuration, no connection.
Init ==
    /\ \E k \in Kinds : kind = [s \in Sides |-> IF s = "client" THEN k ELSE "receive"]
    /\ ctx = [s \in Sides |-> "Idle"]
    /\ props = [s \in Sides |-> [p \in PropNames |-> 0]]
    /\ numTasks = [s \in Sides |-> 0]
    /\ task = [s \in Sides |-> [t \in TaskIds |-> FreeTask]]
    /\ conn = [s \in Sides |-> [c \in {1} |-> NoConn]]
    /\ wire = [s \in Sides |-> [c \in {1} |-> <<>>]]
    /\ listening = [s \in Sides |-> FALSE]
    /\ inPoll = [s \in Sides |-> FALSE]
    /\ cb = [s \in Sides |-> NoCb]
    /\ lastCall = Call("client", "doca_rdma_create", NoCtx, DOCA_SUCCESS)
    /\ atomic = NoAtomic
    /\ fadd = NoFetchAdd /\ sem = NoSem /\ queue = NoQueue /\ rxq = NoRxq /\ reg = NoReg

\* ------------------------------------------------------------ properties
\* "Queue size will be rounded to the next power of 2."
RECURSIVE NextPow2From(_, _)
NextPow2From(p, n) == IF p >= n THEN p ELSE NextPow2From(2 * p, n)

\* The largest power of two that is not above n.
PrevPow2(n) == IF NextPow2From(1, n) = n THEN n ELSE NextPow2From(1, n) \div 2

NextPow2(n) == NextPow2From(1, n)

StoredValueAsGiven(p, v) == v

\* The value a setter stores for property p when given v.
StoredValue(p, v) == IF p \in {"send_queue_size", "recv_queue_size"} THEN NextPow2(v) ELSE v

\* The values an application passes: a queue size, or the one non-default
\* value of an enumerated / index property.
PropInputs(p) == IF p \in {"send_queue_size", "recv_queue_size"} THEN 1..MaxQueueSize ELSE {1}

\* Result of a property setter: "DOCA_ERROR_BAD_STATE - if context is already
\* started"; the setters "can only be called before calling doca_ctx_start()".
SetterResultStartingOnly(st) == IF st = "Starting" THEN DOCA_ERROR_BAD_STATE ELSE DOCA_SUCCESS

SetterResult(st) == IF st = "Idle" THEN DOCA_SUCCESS ELSE DOCA_ERROR_BAD_STATE

\* doca_rdma_set_send_queue_size(), ..._set_mtu(), ... : one action per setter,
\* p names the property.
doca_rdma_set_property(s, p, v) ==
    /\ AppCanCall(s)
    /\ ctx[s] # NoCtx
    /\ LET r == SetterResult(ctx[s]) IN
       /\ props' = IF r = DOCA_SUCCESS
                   THEN [props EXCEPT ![s][p] = StoredValue(p, v)]
                   ELSE props
       /\ lastCall' = [Call(s, "doca_rdma_set_" \o p, ctx[s], r) EXCEPT !.val = v]
    /\ UNCHANGED <<reg, rxq, queue, sem, fadd, atomic, kind, ctx, numTasks, task, conn, wire, listening, inPoll, cb>>

\* Result of a property getter: the getters list no state error, except
\* doca_rdma_get_recv_queue_size(): "DOCA_ERROR_BAD_STATE - if context is
\* already started".
GetterResult(p, st) ==
    IF p = "recv_queue_size" /\ st # "Idle" THEN DOCA_ERROR_BAD_STATE ELSE DOCA_SUCCESS

\* doca_rdma_get_send_queue_size(), ..._get_mtu(), ... : one action per getter.
\* "The size returned is the actual size being used and might differ from the
\* size set by the user": the getter reads what the context stores.
doca_rdma_get_property(s, p) ==
    /\ AppCanCall(s)
    /\ ctx[s] # NoCtx
    /\ LET r == GetterResult(p, ctx[s]) IN
       lastCall' = [Call(s, "doca_rdma_get_" \o p, ctx[s], r)
                       EXCEPT !.val = IF r = DOCA_SUCCESS THEN props[s][p] ELSE 0]
    /\ UNCHANGED <<reg, rxq, queue, sem, fadd, atomic, kind, ctx, props, numTasks, task, conn, wire, listening, inPoll, cb>>

\* -------------------------------------------------------------- lifecycle
\* Connection states that are final for a connection.
ConnTerminal == {"None", "Failed", "Rejected", "Disconnected"}

\* doca_ctx_start(): Idle (or Stopped, for a restart) to Starting.
doca_ctx_start(s) ==
    /\ AppCanCall(s)
    /\ ctx[s] # NoCtx
    /\ IF ctx[s] \in {"Idle", "Stopped"}
       THEN /\ ctx' = [ctx EXCEPT ![s] = "Starting"]
            /\ lastCall' = Call(s, "doca_ctx_start", ctx[s], DOCA_SUCCESS)
       ELSE /\ ctx' = ctx
            /\ lastCall' = Call(s, "doca_ctx_start", ctx[s], DOCA_ERROR_BAD_STATE)
    /\ UNCHANGED <<reg, rxq, queue, sem, fadd, atomic, kind, props, numTasks, task, conn, wire, listening, inPoll, cb>>

\* What stopping does to a connection of the stopped side: an established one
\* is disconnected, one in negotiation is aborted; the peer is told.
StopConn(k) ==
    IF k.st = "Established" THEN [k EXCEPT !.st = "Disconnecting"]
    ELSE IF k.st \in ConnTerminal \cup {"Disconnecting", "Aborting"} THEN k
    ELSE [k EXCEPT !.st = "Aborting"]

StopWire(k, w) ==
    IF k.st \in ConnTerminal \cup {"Disconnecting", "Aborting"} THEN w
    ELSE Append(w, "disconnect")

\* What stopping does to a task: a submitted task is flushed, it will complete
\* with an error.
StopTaskLeavesInFlight(t) == t

StopTask(t) == IF t.st = "Submitted" THEN [t EXCEPT !.hw = "err"] ELSE t

\* doca_ctx_stop(): Running to Stopping; the outstanding work starts draining.
doca_ctx_stop_at_once(s) ==
    /\ AppCanCall(s)
    /\ ctx[s] = "Running"
    /\ ctx' = [ctx EXCEPT ![s] = "Stopped"]
    /\ lastCall' = Call(s, "doca_ctx_stop", ctx[s], DOCA_SUCCESS)
    /\ UNCHANGED <<reg, rxq, queue, sem, fadd, atomic, kind, props, numTasks, task, conn, wire, listening, inPoll, cb>>

doca_ctx_stop(s) ==
    /\ AppCanCall(s)
    /\ ctx[s] # NoCtx
    /\ IF ctx[s] = "Running"
       THEN /\ ctx' = [ctx EXCEPT ![s] = "Stopping"]
            /\ task' = [task EXCEPT ![s] = [t \in TaskIds |-> StopTask(task[s][t])]]
            /\ conn' = [conn EXCEPT ![s] = [c \in ConnIds |-> StopConn(conn[s][c])]]
            /\ wire' = [wire EXCEPT ![Peer(s)] =
                          [c \in ConnIds |-> StopWire(conn[s][c], wire[Peer(s)][c])]]
            /\ listening' = [listening EXCEPT ![s] = FALSE]
            /\ lastCall' = Call(s, "doca_ctx_stop", ctx[s], DOCA_SUCCESS)
       ELSE /\ UNCHANGED <<ctx, task, conn, wire, listening>>
            /\ lastCall' = Call(s, "doca_ctx_stop", ctx[s], DOCA_ERROR_BAD_STATE)
    /\ UNCHANGED <<reg, rxq, queue, sem, fadd, atomic, kind, props, numTasks, inPoll, cb>>

\* Result of doca_rdma_destroy(): "DOCA_ERROR_BAD_STATE - the associated ctx
\* was not stopped before calling doca_rdma_destroy()".
\* doca_rdma_create(dev, &rdma): a context is constructed on the device, Idle
\* and with default properties.
doca_rdma_create(s) ==
    /\ AppOutsidePoll(s)
    /\ ctx[s] = NoCtx
    /\ ctx' = [ctx EXCEPT ![s] = "Idle"]
    /\ props' = [props EXCEPT ![s] = [p \in PropNames |-> 0]]
    /\ numTasks' = [numTasks EXCEPT ![s] = 0]
    /\ lastCall' = Call(s, "doca_rdma_create", NoCtx, DOCA_SUCCESS)
    /\ UNCHANGED <<reg, rxq, queue, sem, fadd, atomic, kind, task, conn, wire, listening, inPoll, cb>>

\* The capability queries: doca_rdma_cap_get_max_recv_queue_size(devinfo, ...),
\* ..._get_max_send_queue_size, ..._get_max_send_buf_list_len,
\* ..._get_max_message_size, ..._get_gid_table_size, ..._get_gid,
\* ..._transport_type_is_supported, ..._task_receive_is_supported,
\* ..._task_send_is_supported.
CapQueries == {"get_max_recv_queue_size", "get_max_send_queue_size",
               "get_max_send_buf_list_len", "get_max_message_size", "get_gid_table_size",
               "get_gid", "transport_type_is_supported", "task_receive_is_supported",
               "task_send_is_supported"}

CapResultOfContext(q, st) == IF st = NoCtx THEN DOCA_ERROR_BAD_STATE ELSE DOCA_SUCCESS

\* Result of a capability query on the device the contexts are created on, a
\* device that supports DOCA RDMA: the queries take "The DOCA device
\* information" and no context, the state st of the caller's context is no
\* input of theirs.
CapResult(q, st) == DOCA_SUCCESS

\* The application of side s calls capability query q with the devinfo of its
\* device; it may hold a context in any state, or none.
doca_rdma_cap_query(s, q) ==
    /\ AppCanCall(s)
    /\ lastCall' = Call(s, "doca_rdma_cap_" \o q, ctx[s], CapResult(q, ctx[s]))
    /\ UNCHANGED <<reg, rxq, queue, sem, fadd, atomic, kind, ctx, props, numTasks, task, conn, wire,
                   listening, inPoll, cb>>

DestroyResultNotRunning(st) ==
    IF st \in {"Starting", "Running"} THEN DOCA_ERROR_BAD_STATE ELSE DOCA_SUCCESS

DestroyResult(st) == IF st = "Stopped" THEN DOCA_SUCCESS ELSE DOCA_ERROR_BAD_STATE

doca_rdma_destroy(s) ==
    /\ AppOutsidePoll(s)
    /\ ctx[s] # NoCtx
    /\ LET r == DestroyResult(ctx[s]) IN
       /\ ctx' = IF r = DOCA_SUCCESS THEN [ctx EXCEPT ![s] = NoCtx] ELSE ctx
       /\ lastCall' = Call(s, "doca_rdma_destroy", ctx[s], r)
    /\ UNCHANGED <<reg, rxq, queue, sem, fadd, atomic, kind, props, numTasks, task, conn, wire, listening, inPoll, cb>>

\* ------------------------------------------------------------- task pools
\* Result of doca_rdma_task_<kind>_set_conf(): "DOCA_ERROR_BAD_STATE - the
\* RDMA instance is not idle".
SetConfResultNotRunning(st) == IF st = "Running" THEN DOCA_ERROR_BAD_STATE ELSE DOCA_SUCCESS

SetConfResult(st) == IF st = "Idle" THEN DOCA_SUCCESS ELSE DOCA_ERROR_BAD_STATE

doca_rdma_task_set_conf(s, n) ==
    /\ AppCanCall(s)
    /\ ctx[s] # NoCtx
    /\ LET r == SetConfResult(ctx[s]) IN
       /\ numTasks' = IF r = DOCA_SUCCESS THEN [numTasks EXCEPT ![s] = n] ELSE numTasks
       /\ lastCall' = Call(s, "doca_rdma_task_" \o KindOf(s) \o "_set_conf", ctx[s], r)
    /\ UNCHANGED <<reg, rxq, queue, sem, fadd, atomic, kind, ctx, props, task, conn, wire, listening, inPoll, cb>>

\* Tasks of side s that are out of the pool (held by the caller or the engine).
Allocated(s) == {t \in TaskIds : task[s][t].st # "Pooled"}

\* The slots of the pool of side s that an allocation can take.
PoolSlotsGrowing(s) == {t \in TaskIds : task[s][t].st = "Pooled"}

PoolSlots(s) == {t \in 1..numTasks[s] : task[s][t].st = "Pooled"}

Min(S) == CHOOSE x \in S : \A y \in S : x <= y

\* The bytes of a message.
Bytes == {1, 2}

\* The sequences over S of length n, and of length at most n.
SeqsOfLen(S, n) == [1..n -> S]

SeqsUpTo(S, n) == UNION {SeqsOfLen(S, i) : i \in 0..n}

\* The buffers an application passes to allocate_init: the source data of a
\* send ("May be NULL when wishing to send an empty message"), or the zeroed
\* destination buffer of a receive ("May be NULL when receiving an empty
\* message").
Buffers(k) == IF k = "send" THEN SeqsUpTo(Bytes, MaxLen) ELSE SeqsUpTo({0}, MaxLen)

\* The task allocate_init initializes, for kind k, connection c and buffer b.
InitializedTask(k, c, b) ==
    IF k = "send"
    THEN [FreeTask EXCEPT !.st = "Allocated", !.c = c, !.buf = b]
    ELSE [FreeTask EXCEPT !.st = "Allocated", !.c = c, !.cap = Len(b)]

\* doca_rdma_task_<kind>_allocate_init(): takes a task from the pool, bound to
\* connection c (0 for a kind that takes no connection) and buffer b;
\* "DOCA_ERROR_NO_MEMORY - no more tasks to allocate".
doca_rdma_task_allocate_init(s, c, b) ==
    /\ AppCanCall(s)
    /\ ctx[s] = "Running"
    /\ IF PoolSlots(s) # {}
       THEN /\ task' = [task EXCEPT ![s][Min(PoolSlots(s))] =
                           InitializedTask(KindOf(s), c, b)]
            /\ lastCall' = Call(s, "doca_rdma_task_" \o KindOf(s) \o "_allocate_init",
                                ctx[s], DOCA_SUCCESS)
       ELSE /\ task' = task
            /\ lastCall' = Call(s, "doca_rdma_task_" \o KindOf(s) \o "_allocate_init",
                                ctx[s], DOCA_ERROR_NO_MEMORY)
    /\ UNCHANGED <<reg, rxq, queue, sem, fadd, atomic, kind, ctx, props, numTasks, conn, wire, listening, inPoll, cb>>

\* Does the task kind of side s take a connection argument?
TakesConnection(s) == KindOf(s) = "send"

\* Result of doca_task_submit() for a task the caller owns: the context must be
\* running and, for a kind that takes a connection, the connection established.
SubmitResultNoConnCheck(s, t) ==
    IF ctx[s] # "Running" THEN DOCA_ERROR_BAD_STATE ELSE DOCA_SUCCESS

SubmitResult(s, t) ==
    IF ctx[s] # "Running" THEN DOCA_ERROR_BAD_STATE
    ELSE IF TakesConnection(s) /\ conn[s][task[s][t].c].st # "Established"
         THEN DOCA_ERROR_BAD_STATE
    ELSE DOCA_SUCCESS

CallerOwnedOrSubmitted(s) == {t \in TaskIds : task[s][t].st # "Pooled"}

\* A task the caller owns: freshly allocated, or handed back by its completion
\* callback.
CallerOwned(s) == {t \in TaskIds : task[s][t].st \in {"Allocated", "Completed"}}

SubmittedTaskInitializedAnew(k) == [FreeTask EXCEPT !.st = "Submitted", !.c = k.c]

\* The task doca_task_submit() passes to the engine: what the caller set on it
\* stays, the outcome of an earlier submission is forgotten.
SubmittedTask(k) == [k EXCEPT !.st = "Submitted", !.hw = "none", !.ok = 0, !.err = 0]

\* doca_task_submit(): ownership of the task passes to the engine.
doca_task_submit(s, t) ==
    /\ AppCanCall(s)
    /\ ctx[s] # NoCtx
    /\ t \in CallerOwned(s)
    /\ LET r == SubmitResult(s, t) IN
       /\ task' = IF r = DOCA_SUCCESS
                  THEN [task EXCEPT ![s][t] = SubmittedTask(task[s][t])]
                  ELSE task
       /\ lastCall' = CallOn(s, "doca_task_submit", ctx[s], t,
                             IF TakesConnection(s) THEN conn[s][task[s][t].c].st ELSE "-", r)
    /\ UNCHANGED <<reg, rxq, queue, sem, fadd, atomic, kind, ctx, props, numTasks, conn, wire, listening, inPoll, cb>>

\* The task that doca_task_free() leaves in slot t.
FreedTaskLeaked(k) == [k EXCEPT !.st = "Leaked"]

FreedTask(k) == FreeTask

\* doca_task_free(): "release task with doca_task_free()", the slot returns to
\* the pool.
doca_task_free(s, t) ==
    /\ AppCanCall(s)
    /\ t \in CallerOwned(s)
    /\ task' = [task EXCEPT ![s][t] = FreedTask(task[s][t])]
    /\ lastCall' = CallOn(s, "doca_task_free", ctx[s], t, "-", DOCA_SUCCESS)
    /\ UNCHANGED <<reg, rxq, queue, sem, fadd, atomic, kind, ctx, props, numTasks, conn, wire, listening, inPoll, cb>>

\* doca_rdma_task_send_set_src_buf(): "sets the source buffer of a send task",
\* on a task the caller owns.
doca_rdma_task_send_set_src_buf(s, t, b) ==
    /\ AppCanCall(s)
    /\ KindOf(s) = "send"
    /\ t \in CallerOwned(s)
    /\ task' = [task EXCEPT ![s][t].buf = b]
    /\ lastCall' = CallOn(s, "doca_rdma_task_send_set_src_buf", ctx[s], t, "-", DOCA_SUCCESS)
    /\ UNCHANGED <<reg, rxq, queue, sem, fadd, atomic, kind, ctx, props, numTasks, conn, wire, listening, inPoll, cb>>

\* doca_rdma_task_send_set_rdma_connection(): "sets the rdma_connection of a
\* send task", on a task the caller owns.
doca_rdma_task_send_set_rdma_connection(s, t, c) ==
    /\ AppCanCall(s)
    /\ KindOf(s) = "send"
    /\ t \in CallerOwned(s)
    /\ task' = [task EXCEPT ![s][t].c = c]
    /\ lastCall' = CallOn(s, "doca_rdma_task_send_set_rdma_connection", ctx[s], t,
                          conn[s][c].st, DOCA_SUCCESS)
    /\ UNCHANGED <<reg, rxq, queue, sem, fadd, atomic, kind, ctx, props, numTasks, conn, wire, listening, inPoll, cb>>

\* --------------------------------------------------------------- transport
\* The receive task k after the message p was received into it: the data is in
\* its destination buffer, the result length is the length of the message.
ReceivedLengthOfBuffer(k, p) == [k EXCEPT !.hw = "ok", !.buf = p, !.len = k.cap]

Received(k, p) == [k EXCEPT !.hw = "ok", !.buf = p, !.len = Len(p)]

\* A send t of side s on connection c and a receive r posted by the peer.
SendMeetsReceive(s, c, t, r) ==
    /\ KindOf(s) = "send" /\ KindOf(Peer(s)) = "receive"
    /\ task[s][t].st = "Submitted" /\ task[s][t].hw = "none"
    /\ task[s][t].c = c
    /\ task[Peer(s)][r].st = "Submitted" /\ task[Peer(s)][r].hw = "none"
    /\ conn[s][c].st = "Established"
    /\ conn[Peer(s)][c].st = "Established"

\* The transport carries a send of side s on connection c into a receive posted
\* by the peer: both tasks are done, their completions wait for a poll.
TransportDeliver(s, c, t, r) ==
    /\ SendMeetsReceive(s, c, t, r)
    /\ Len(task[s][t].buf) <= task[Peer(s)][r].cap
    /\ task' = [task EXCEPT ![s][t].hw = "ok",
                            ![Peer(s)][r] = Received(task[Peer(s)][r], task[s][t].buf)]
    /\ UNCHANGED <<reg, rxq, queue, sem, fadd, atomic, kind, ctx, props, numTasks, conn, wire, listening, inPoll, cb, lastCall>>

\* The message is longer than the destination buffer of the receive it meets:
\* both tasks fail.
TransportOverflow(s, c, t, r) ==
    /\ SendMeetsReceive(s, c, t, r)
    /\ Len(task[s][t].buf) > task[Peer(s)][r].cap
    /\ task' = [task EXCEPT ![s][t].hw = "err", ![Peer(s)][r].hw = "err"]
    /\ UNCHANGED <<reg, rxq, queue, sem, fadd, atomic, kind, ctx, props, numTasks, conn, wire, listening, inPoll, cb, lastCall>>

\* The transport fails a submitted send whose connection is gone.
TransportFail(s, t) ==
    /\ TakesConnection(s)
    /\ task[s][t].st = "Submitted" /\ task[s][t].hw = "none"
    /\ conn[s][task[s][t].c].st # "Established"
    /\ task' = [task EXCEPT ![s][t].hw = "err"]
    /\ UNCHANGED <<reg, rxq, queue, sem, fadd, atomic, kind, ctx, props, numTasks, conn, wire, listening, inPoll, cb, lastCall>>

\* ------------------------------------------------------------- connections
\* Connections of side s whose handle the application holds.
Handles(s) == {c \in ConnIds : conn[s][c].st # "None"}

\* The connection objects not handed out yet.
UnusedConn == {c \in ConnIds : conn["client"][c].st = "None" /\ wire["server"][c] = <<>>
                               /\ conn["server"][c].st = "None"}

\* The connections of side s that are being used: handed out and not ended.
InUse(s) == {c \in ConnIds : conn[s][c].st \notin ConnTerminal}

\* "All connections are being used": the context of side s was given a
\* maximum number of connections (doca_rdma_set_max_num_connections(), "the
\* maximum amount of connections allowed") and uses that many.
AtCapacityNever(s) == FALSE

AtCapacity(s) ==
    /\ props[s]["max_num_connections"] # 0
    /\ Cardinality(InUse(s)) >= props[s]["max_num_connections"]

ConnectToAddrResultAnyState(s) ==
    IF AtCapacity(s) THEN DOCA_ERROR_FULL ELSE DOCA_SUCCESS

\* Result of doca_rdma_connect_to_addr(): "Can be called when the ctx is in
\* DOCA_CTX_STATE_RUNNING state".
ConnectToAddrResult(s) ==
    IF ctx[s] # "Running" THEN DOCA_ERROR_BAD_STATE
    ELSE IF AtCapacity(s) THEN DOCA_ERROR_FULL
    ELSE DOCA_SUCCESS

\* doca_rdma_connect_to_addr(): "Can be called when the ctx is in
\* DOCA_CTX_STATE_RUNNING state"; the request travels to the listener and the
\* answer is evaluated by doca_pe_progress().
doca_rdma_connect_to_addr(s, ud) ==
    /\ s = "client"
    /\ AppCanCall(s)
    /\ ctx[s] # NoCtx
    /\ UnusedConn # {} \/ AtCapacity(s)
    /\ LET r == ConnectToAddrResult(s) IN
       IF r = DOCA_SUCCESS
       THEN LET c == Min(UnusedConn) IN
            /\ conn' = [conn EXCEPT ![s][c] = [NoConn EXCEPT !.st = "Connecting", !.ud = ud]]
            /\ wire' = [wire EXCEPT ![Peer(s)][c] = Append(@, "request")]
            /\ lastCall' = Call(s, "doca_rdma_connect_to_addr", ctx[s], r)
       ELSE /\ UNCHANGED <<conn, wire>>
            /\ lastCall' = Call(s, "doca_rdma_connect_to_addr", ctx[s], r)
    /\ UNCHANGED <<reg, rxq, queue, sem, fadd, atomic, kind, ctx, props, numTasks, task, listening, inPoll, cb>>

\* Result of doca_rdma_export(): "Can only be called after calling
\* doca_ctx_start()", "DOCA_ERROR_BAD_STATE - if called before calling
\* ctx_start()".
ExportResult(st) == IF st = "Idle" THEN DOCA_ERROR_BAD_STATE ELSE DOCA_SUCCESS

\* "DOCA_ERROR_FULL - if all connections are being used."
ExportResultOn(s) ==
    IF ExportResult(ctx[s]) # DOCA_SUCCESS THEN ExportResult(ctx[s])
    ELSE IF AtCapacity(s) THEN DOCA_ERROR_FULL
    ELSE DOCA_SUCCESS

\* doca_rdma_export(): hands out a connection object and the local connection
\* details for it; called on a context that is idle or was started.
doca_rdma_export(s) ==
    /\ s = "client"
    /\ AppCanCall(s)
    /\ ctx[s] \in {"Idle", "Starting", "Running"}
    /\ UnusedConn # {} \/ AtCapacity(s)
    /\ LET r == ExportResultOn(s) IN
       IF r = DOCA_SUCCESS
       THEN LET c == Min(UnusedConn) IN
            /\ conn' = [conn EXCEPT ![s][c] = [NoConn EXCEPT !.st = "Exported"]]
            /\ lastCall' = CallOn(s, "doca_rdma_export", ctx[s], c, conn[s][c].st, r)
       ELSE /\ conn' = conn
            /\ lastCall' = CallOn(s, "doca_rdma_export", ctx[s],
                                  IF UnusedConn # {} THEN Min(UnusedConn) ELSE 0, "None", r)
    /\ UNCHANGED <<reg, rxq, queue, sem, fadd, atomic, kind, ctx, props, numTasks, task, wire, listening, inPoll, cb>>

\* Result of doca_rdma_bridge_prepare_connection(): "Can be called when the ctx
\* is in DOCA_CTX_STATE_RUNNING state", "DOCA_ERROR_FULL - if all connections
\* are being used", "DOCA_ERROR_BAD_STATE - if context is in an invalid or
\* error state".
BridgePrepareResult(s) ==
    IF ctx[s] # "Running" THEN DOCA_ERROR_BAD_STATE
    ELSE IF AtCapacity(s) THEN DOCA_ERROR_FULL
    ELSE DOCA_SUCCESS

\* doca_rdma_bridge_prepare_connection(): prepares a connection for a request
\* the application listened for by itself; doca_rdma_bridge_accept() continues
\* the connection process.
doca_rdma_bridge_prepare_connection(s) ==
    /\ s = "client"
    /\ AppCanCall(s)
    /\ ctx[s] # NoCtx
    /\ UnusedConn # {} \/ AtCapacity(s)
    /\ LET r == BridgePrepareResult(s) IN
       IF r = DOCA_SUCCESS
       THEN LET c == Min(UnusedConn) IN
            /\ conn' = [conn EXCEPT ![s][c] = [NoConn EXCEPT !.st = "Prepared"]]
            /\ lastCall' = CallOn(s, "doca_rdma_bridge_prepare_connection", ctx[s], c,
                                  "None", r)
       ELSE /\ conn' = conn
            /\ lastCall' = Call(s, "doca_rdma_bridge_prepare_connection", ctx[s], r)
    /\ UNCHANGED <<reg, rxq, queue, sem, fadd, atomic, kind, ctx, props, numTasks, task, wire, listening, inPoll, cb>>

\* Result of doca_rdma_connect() for a connection in state cst: "Can only be
\* called when the ctx is in DOCA_CTX_STATE_STARTING state",
\* "DOCA_ERROR_BAD_STATE - if context was not started or rdma instance is
\* already connected".
ConnectResult(st, cst) ==
    IF st = "Starting" /\ cst = "Exported" THEN DOCA_SUCCESS ELSE DOCA_ERROR_BAD_STATE

\* doca_rdma_connect(): connects an exported connection to the remote peer whose
\* details were passed; "Once called, doca_pe_progress() should be called, in
\* order to transition the ctx to DOCA_CTX_STATE_RUNNING state".
doca_rdma_connect(s, c) ==
    /\ AppCanCall(s)
    /\ ctx[s] # NoCtx
    /\ conn[s][c].st \in {"Exported", "Connected", "Established"}
    /\ LET r == ConnectResult(ctx[s], conn[s][c].st) IN
       /\ conn' = IF r = DOCA_SUCCESS THEN [conn EXCEPT ![s][c].st = "Connected"] ELSE conn
       /\ lastCall' = CallOn(s, "doca_rdma_connect", ctx[s], c, conn[s][c].st, r)
    /\ UNCHANGED <<reg, rxq, queue, sem, fadd, atomic, kind, ctx, props, numTasks, task, wire, listening, inPoll, cb>>

\* doca_rdma_start_listen_to_port(): "Can be called when the ctx is in
\* DOCA_CTX_STATE_RUNNING state".
doca_rdma_start_listen_to_port(s) ==
    /\ s = "server"
    /\ AppCanCall(s)
    /\ ctx[s] # NoCtx
    /\ ~listening[s]
    /\ IF ctx[s] = "Running"
       THEN /\ listening' = [listening EXCEPT ![s] = TRUE]
            /\ lastCall' = Call(s, "doca_rdma_start_listen_to_port", ctx[s], DOCA_SUCCESS)
       ELSE /\ listening' = listening
            /\ lastCall' = Call(s, "doca_rdma_start_listen_to_port", ctx[s],
                                DOCA_ERROR_BAD_STATE)
    /\ UNCHANGED <<reg, rxq, queue, sem, fadd, atomic, kind, ctx, props, numTasks, task, conn, wire, inPoll, cb>>

\* doca_rdma_stop_listen_to_port(): "Can be called when the ctx is in
\* DOCA_CTX_STATE_RUNNING state. Once called, Server just stop listening for
\* incoming connection requests and do not disconnect any remote doca_rdma
\* peer."
doca_rdma_stop_listen_to_port(s) ==
    /\ s = "server"
    /\ AppCanCall(s)
    /\ ctx[s] = "Running"
    /\ listening[s]
    /\ listening' = [listening EXCEPT ![s] = FALSE]
    /\ lastCall' = Call(s, "doca_rdma_stop_listen_to_port", ctx[s], DOCA_SUCCESS)
    /\ UNCHANGED <<reg, rxq, queue, sem, fadd, atomic, kind, ctx, props, numTasks, task, conn, wire, inPoll, cb>>

\* The connection record doca_rdma_connection_accept() leaves: the decision is
\* recorded, the handshake itself is completed by a later poll pass.
AcceptedConnSynchronous(s, k) == [k EXCEPT !.st = "Established"]

AcceptedConn(s, k) == [k EXCEPT !.st = "Accepted", !.fresh = inPoll[s]]

\* doca_rdma_connection_accept(): the server's decision on a connection request.
doca_rdma_connection_accept(s, c) ==
    /\ AppCanCall(s)
    /\ ctx[s] = "Running"
    /\ conn[s][c].st = "Requested"
    /\ conn' = [conn EXCEPT ![s][c] = AcceptedConn(s, conn[s][c])]
    /\ lastCall' = CallOn(s, "doca_rdma_connection_accept", ctx[s], c, conn[s][c].st,
                          DOCA_SUCCESS)
    /\ UNCHANGED <<reg, rxq, queue, sem, fadd, atomic, kind, ctx, props, numTasks, task, wire, listening, inPoll, cb>>

\* doca_rdma_connection_reject().
doca_rdma_connection_reject(s, c) ==
    /\ AppCanCall(s)
    /\ ctx[s] = "Running"
    /\ conn[s][c].st = "Requested"
    /\ conn' = [conn EXCEPT ![s][c] = [@ EXCEPT !.st = "Rejecting", !.fresh = inPoll[s]]]
    /\ lastCall' = CallOn(s, "doca_rdma_connection_reject", ctx[s], c, conn[s][c].st,
                          DOCA_SUCCESS)
    /\ UNCHANGED <<reg, rxq, queue, sem, fadd, atomic, kind, ctx, props, numTasks, task, wire, listening, inPoll, cb>>

\* The connection record doca_rdma_connection_disconnect() leaves: the
\* teardown is under way, a poll reports it.
DisconnectingConnSynchronous(k) == [k EXCEPT !.st = "Disconnected"]

DisconnectingConn(k) == [k EXCEPT !.st = "Disconnecting"]

\* doca_rdma_connection_disconnect(): starts the teardown of an established
\* connection; the peer is told and both sides learn of it in a poll.
doca_rdma_connection_disconnect(s, c) ==
    /\ AppCanCall(s)
    /\ ctx[s] = "Running"
    /\ conn[s][c].st = "Established"
    /\ conn' = [conn EXCEPT ![s][c] = DisconnectingConn(conn[s][c])]
    /\ wire' = [wire EXCEPT ![Peer(s)][c] = Append(@, "disconnect")]
    /\ lastCall' = CallOn(s, "doca_rdma_connection_disconnect", ctx[s], c, conn[s][c].st,
                          DOCA_SUCCESS)
    /\ UNCHANGED <<reg, rxq, queue, sem, fadd, atomic, kind, ctx, props, numTasks, task, listening, inPoll, cb>>

\* doca_rdma_connection_set_user_data(): attaches user data to a connection the
\* application holds; legal in every state of the connection.
doca_rdma_connection_set_user_data(s, c, ud) ==
    /\ AppCanCall(s)
    /\ ctx[s] # NoCtx
    /\ c \in Handles(s)
    /\ conn' = [conn EXCEPT ![s][c].ud = ud]
    /\ lastCall' = CallOn(s, "doca_rdma_connection_set_user_data", ctx[s], c, conn[s][c].st,
                          DOCA_SUCCESS)
    /\ UNCHANGED <<reg, rxq, queue, sem, fadd, atomic, kind, ctx, props, numTasks, task, wire, listening, inPoll, cb>>

\* --------------------------------------------------------- progress engine
\* The connection_user_data parameter of a connection callback: "the doca_data
\* supplied to the connection by the application (during connection or by a
\* setter)".
CallbackUserDataOfFirst(s, c) == conn[s][Min(Handles(s))].ud

CallbackUserData(s, c) == conn[s][c].ud

\* doca_pe_progress() is executing its own code (no callback is running).
EngineRuns(s) == inPoll[s] /\ cb[s] = NoCb

\* Callback counters saturate: two deliveries already are one too many.
Inc(n) == IF n < 2 THEN n + 1 ELSE n

HeadIs(w, m) == w # <<>> /\ Head(w) = m

\* The application calls doca_pe_progress().
pe_progress_call(s) ==
    /\ ~inPoll[s]
    /\ ctx[s] # NoCtx
    /\ inPoll' = [inPoll EXCEPT ![s] = TRUE]
    /\ lastCall' = Call(s, "doca_pe_progress", ctx[s], DOCA_SUCCESS)
    /\ UNCHANGED <<reg, rxq, queue, sem, fadd, atomic, kind, ctx, props, numTasks, task, conn, wire, listening, cb>>

\* doca_pe_progress() returns: decisions taken in the pass that ends are now
\* decisions of an earlier pass.
pe_progress_return(s) ==
    /\ EngineRuns(s)
    /\ inPoll' = [inPoll EXCEPT ![s] = FALSE]
    /\ conn' = [conn EXCEPT ![s] = [c \in ConnIds |-> [conn[s][c] EXCEPT !.fresh = FALSE]]]
    /\ UNCHANGED <<reg, rxq, queue, sem, fadd, atomic, kind, ctx, props, numTasks, task, wire, listening, cb, lastCall>>

\* The callback that doca_pe_progress() invoked returns to it.
CallbackReturn(s) ==
    /\ cb[s] # NoCb
    /\ cb' = [cb EXCEPT ![s] = NoCb]
    /\ UNCHANGED <<reg, rxq, queue, sem, fadd, atomic, kind, ctx, props, numTasks, task, conn, wire, listening, inPoll, lastCall>>

\* The transport of side s is ready: no exported connection waits for its
\* doca_rdma_connect().
TransportReadyAtOnce(s) == TRUE

TransportReady(s) == \A c \in ConnIds : conn[s][c].st # "Exported"

\* A connection when its context becomes Running: a connected one is usable.
RunningConn(k) == IF k.st = "Connected" THEN [k EXCEPT !.st = "Established"] ELSE k

\* Starting to Running: observed by a poll once the transport is ready.
PollCtxRunning(s) ==
    /\ EngineRuns(s)
    /\ ctx[s] = "Starting"
    /\ TransportReady(s)
    /\ ctx' = [ctx EXCEPT ![s] = "Running"]
    /\ conn' = [conn EXCEPT ![s] = [c \in ConnIds |-> RunningConn(conn[s][c])]]
    /\ UNCHANGED <<reg, rxq, queue, sem, fadd, atomic, kind, props, numTasks, task, wire, listening, inPoll, cb, lastCall>>

\* Stopping to Stopped: once every task and connection has drained.
PollCtxStoppedNoDrain(s) ==
    /\ EngineRuns(s)
    /\ ctx[s] = "Stopping"
    /\ ctx' = [ctx EXCEPT ![s] = "Stopped"]
    /\ UNCHANGED <<reg, rxq, queue, sem, fadd, atomic, kind, props, numTasks, task, conn, wire, listening, inPoll, cb, lastCall>>

PollCtxStopped(s) ==
    /\ EngineRuns(s)
    /\ ctx[s] = "Stopping"
    /\ \A t \in TaskIds : task[s][t].st # "Submitted"
    /\ \A c \in ConnIds : conn[s][c].st \in ConnTerminal
    /\ ctx' = [ctx EXCEPT ![s] = "Stopped"]
    /\ UNCHANGED <<reg, rxq, queue, sem, fadd, atomic, kind, props, numTasks, task, conn, wire, listening, inPoll, cb, lastCall>>

TakesRequestsWhileRunning(s) == ctx[s] = "Running"

\* Side s evaluates connection requests: it is running and listening
\* (doca_rdma_start_listen_to_port() was called, and neither
\* doca_rdma_stop_listen_to_port() nor doca_ctx_stop() since).
TakesRequests(s) == ctx[s] = "Running" /\ listening[s]

\* A connection request reached a listening server: the request callback runs.
PollConnectionRequest(s, c) ==
    /\ EngineRuns(s)
    /\ TakesRequests(s)
    /\ conn[s][c].st = "None"
    /\ HeadIs(wire[s][c], "request")
    /\ conn' = [conn EXCEPT ![s][c] = [NoConn EXCEPT !.st = "Requested", !.req = 1]]
    /\ wire' = [wire EXCEPT ![s][c] = Tail(@)]
    /\ cb' = [cb EXCEPT ![s] = [kind |-> "request", id |-> c, ud |-> 0]]
    /\ UNCHANGED <<reg, rxq, queue, sem, fadd, atomic, kind, ctx, props, numTasks, task, listening, inPoll, lastCall>>

\* The decision of an earlier pass is applied: the accept completes the
\* handshake (established callback on the server, answer to the client), the
\* reject is sent.
PollHandshake(s, c) ==
    /\ EngineRuns(s)
    /\ ctx[s] = "Running"
    /\ conn[s][c].st \in {"Accepted", "Rejecting"}
    /\ ~conn[s][c].fresh
    /\ IF conn[s][c].st = "Accepted"
       THEN /\ conn' = [conn EXCEPT ![s][c] =
                          [@ EXCEPT !.st = "Established", !.est = Inc(@)]]
            /\ wire' = [wire EXCEPT ![Peer(s)][c] = Append(@, "accept")]
            /\ cb' = [cb EXCEPT ![s] = [kind |-> "established", id |-> c, ud |-> CallbackUserData(s, c)]]
       ELSE /\ conn' = [conn EXCEPT ![s][c].st = "Rejected"]
            /\ wire' = [wire EXCEPT ![Peer(s)][c] = Append(@, "reject")]
            /\ cb' = cb
    /\ UNCHANGED <<reg, rxq, queue, sem, fadd, atomic, kind, ctx, props, numTasks, task, listening, inPoll, lastCall>>

\* The connection record after the answer m to a connect-to-address request:
\* established on an accept, failed otherwise; the matching callback is counted.
AnsweredConnStillConnecting(k, m) ==
    IF m = "accept" THEN [k EXCEPT !.est = Inc(@)] ELSE [k EXCEPT !.fail = Inc(@)]

AnsweredConnAlwaysFailed(k, m) == [k EXCEPT !.st = "Failed", !.fail = Inc(@)]

AnsweredConn(k, m) ==
    IF m = "accept" THEN [k EXCEPT !.st = "Established", !.est = Inc(@)]
    ELSE [k EXCEPT !.st = "Failed", !.fail = Inc(@)]

\* The answer to a connect-to-address request arrived: established or failure
\* callback on the initiator.
PollConnectionAnswer(s, c) ==
    /\ EngineRuns(s)
    /\ conn[s][c].st = "Connecting"
    /\ wire[s][c] # <<>>
    /\ conn' = [conn EXCEPT ![s][c] = AnsweredConn(conn[s][c], Head(wire[s][c]))]
    /\ cb' = [cb EXCEPT ![s] = [kind |-> IF Head(wire[s][c]) = "accept"
                                         THEN "established" ELSE "failure",
                                id |-> c, ud |-> CallbackUserData(s, c)]]
    /\ wire' = [wire EXCEPT ![s][c] = Tail(@)]
    /\ UNCHANGED <<reg, rxq, queue, sem, fadd, atomic, kind, ctx, props, numTasks, task, listening, inPoll, lastCall>>

\* The teardown of an established connection is confirmed (own disconnect, or
\* the peer's): disconnection callback.
PollDisconnectionLocalOnly(s, c) ==
    /\ EngineRuns(s)
    /\ conn[s][c].st = "Disconnecting"
    /\ wire' = wire
    /\ conn' = [conn EXCEPT ![s][c] = [@ EXCEPT !.st = "Disconnected", !.disc = Inc(@)]]
    /\ cb' = [cb EXCEPT ![s] = [kind |-> "disconnection", id |-> c, ud |-> CallbackUserData(s, c)]]
    /\ UNCHANGED <<reg, rxq, queue, sem, fadd, atomic, kind, ctx, props, numTasks, task, listening, inPoll, lastCall>>

PollDisconnection(s, c) ==
    /\ EngineRuns(s)
    /\ \/ /\ conn[s][c].st = "Disconnecting"
          /\ wire' = wire
       \/ /\ conn[s][c].st = "Established"
          /\ HeadIs(wire[s][c], "disconnect")
          /\ wire' = [wire EXCEPT ![s][c] = Tail(@)]
    /\ conn' = [conn EXCEPT ![s][c] = [@ EXCEPT !.st = "Disconnected", !.disc = Inc(@)]]
    /\ cb' = [cb EXCEPT ![s] = [kind |-> "disconnection", id |-> c, ud |-> CallbackUserData(s, c)]]
    /\ UNCHANGED <<reg, rxq, queue, sem, fadd, atomic, kind, ctx, props, numTasks, task, listening, inPoll, lastCall>>

\* A connection still in negotiation is aborted (by the stop of this side, or
\* by the peer going away): failure callback where the application was told of
\* the connection or asked for it.
PollConnectionAbort(s, c) ==
    /\ EngineRuns(s)
    /\ \/ /\ conn[s][c].st = "Aborting"
          /\ wire' = wire
       \/ /\ conn[s][c].st \in {"Requested", "Accepted", "Rejecting"}
          /\ HeadIs(wire[s][c], "disconnect")
          /\ wire' = [wire EXCEPT ![s][c] = Tail(@)]
    /\ conn' = [conn EXCEPT ![s][c] = [@ EXCEPT !.st = "Failed", !.fail = Inc(@)]]
    /\ cb' = [cb EXCEPT ![s] = [kind |-> "failure", id |-> c, ud |-> CallbackUserData(s, c)]]
    /\ UNCHANGED <<reg, rxq, queue, sem, fadd, atomic, kind, ctx, props, numTasks, task, listening, inPoll, lastCall>>

\* A transport event for a connection that is already over is dropped.
PollDropStale(s, c) ==
    /\ EngineRuns(s)
    /\ wire[s][c] # <<>>
    /\ conn[s][c].st \in {"Failed", "Rejected", "Disconnected", "Disconnecting", "Aborting"}
    /\ wire' = [wire EXCEPT ![s][c] = Tail(@)]
    /\ UNCHANGED <<reg, rxq, queue, sem, fadd, atomic, kind, ctx, props, numTasks, task, conn, listening, inPoll, cb, lastCall>>

\* The task doca_pe_progress() hands to the completion callback.
CompletedTaskStillSubmitted(k) ==
    [k EXCEPT !.ok = IF k.hw = "ok" THEN Inc(@) ELSE @,
              !.err = IF k.hw = "err" THEN Inc(@) ELSE @]

CompletedTask(k) ==
    [k EXCEPT !.st = "Completed", !.hw = "none",
              !.ok = IF k.hw = "ok" THEN Inc(@) ELSE @,
              !.err = IF k.hw = "err" THEN Inc(@) ELSE @]

\* A finished task is identified as completed: its success or error callback
\* runs and the task belongs to the caller again.
PollTaskCompletion(s, t) ==
    /\ EngineRuns(s)
    /\ task[s][t].st = "Submitted"
    /\ task[s][t].hw # "none"
    /\ task' = [task EXCEPT ![s][t] = CompletedTask(task[s][t])]
    /\ cb' = [cb EXCEPT ![s] = [kind |-> "task_" \o task[s][t].hw, id |-> t, ud |-> 0]]
    /\ UNCHANGED <<reg, rxq, queue, sem, fadd, atomic, kind, ctx, props, numTasks, conn, wire, listening, inPoll, lastCall>>

\* ------------------------------------------------------------ remote peer
\* The peer of side s as seen from the transport, when the peer's own context
\* is not part of the run: conn[Peer(s)][c].st is the peer's end of connection c.

\* The peer answers a connection request: it accepts (m = "accept") or rejects.
RemoteAnswer(s, c, m) ==
    /\ HeadIs(wire[Peer(s)][c], "request")
    /\ conn[Peer(s)][c].st = "None"
    /\ conn' = [conn EXCEPT ![Peer(s)][c].st =
                   IF m = "accept" THEN "Established" ELSE "Rejected"]
    /\ wire' = [wire EXCEPT ![Peer(s)][c] = Tail(@), ![s][c] = Append(@, m)]
    /\ UNCHANGED <<reg, rxq, queue, sem, fadd, atomic, kind, ctx, props, numTasks, task, listening, inPoll, cb, lastCall>>

\* The peer connects its end of a connection that side s connected with
\* doca_rdma_connect().
RemoteConnects(s, c) ==
    /\ conn[s][c].st \in {"Connected", "Established"}
    /\ conn[Peer(s)][c].st = "None"
    /\ conn' = [conn EXCEPT ![Peer(s)][c].st = "Established"]
    /\ UNCHANGED <<reg, rxq, queue, sem, fadd, atomic, kind, ctx, props, numTasks, task, wire, listening, inPoll, cb, lastCall>>

\* The peer disconnects an established connection.
RemoteDisconnect(s, c) ==
    /\ conn[Peer(s)][c].st = "Established"
    /\ conn' = [conn EXCEPT ![Peer(s)][c].st = "Disconnected"]
    /\ wire' = [wire EXCEPT ![s][c] = Append(@, "disconnect")]
    /\ UNCHANGED <<reg, rxq, queue, sem, fadd, atomic, kind, ctx, props, numTasks, task, listening, inPoll, cb, lastCall>>

\* The peer learns that side s went away.
RemoteHears(s, c) ==
    /\ HeadIs(wire[Peer(s)][c], "disconnect")
    /\ conn' = [conn EXCEPT ![Peer(s)][c].st =
                   IF @ = "Established" THEN "Disconnected" ELSE @]
    /\ wire' = [wire EXCEPT ![Peer(s)][c] = Tail(@)]
    /\ UNCHANGED <<reg, rxq, queue, sem, fadd, atomic, kind, ctx, props, numTasks, task, listening, inPoll, cb, lastCall>>

\* The peer serves a submitted task of side s over an established connection:
\* it receives the send, or its send lands in the posted receive.
RemoteServes(s, t) ==
    /\ task[s][t].st = "Submitted" /\ task[s][t].hw = "none"
    /\ \E c \in ConnIds :
          /\ TakesConnection(s) => task[s][t].c = c
          /\ conn[s][c].st = "Established"
          /\ conn[Peer(s)][c].st = "Established"
    /\ task' = [task EXCEPT ![s][t].hw = "ok"]
    /\ UNCHANGED <<reg, rxq, queue, sem, fadd, atomic, kind, ctx, props, numTasks, conn, wire, listening, inPoll, cb, lastCall>>

\* ---------------------------------------------- atomic compare and swap
\* doca_rdma_task_atomic_cmp_swp_allocate_init(): takes the task from its pool,
\* for connection c, the buffers dst_buf and result_buf and the 8-byte values
\* cmp_data and swap_data; "DOCA_ERROR_NO_MEMORY - no more tasks to allocate".
doca_rdma_task_atomic_cmp_swp_allocate_init(s, c, cmp_data, swap_data) ==
    /\ AppCanCall(s)
    /\ ctx[s] = "Running"
    /\ IF atomic.st = "Pooled"
       THEN /\ atomic' = [atomic EXCEPT !.st = "Allocated", !.c = c, !.hw = "none",
                                         !.cmp = cmp_data, !.swap = swap_data]
            /\ lastCall' = CallOn(s, "doca_rdma_task_atomic_cmp_swp_allocate_init",
                                  ctx[s], c, conn[s][c].st, DOCA_SUCCESS)
       ELSE /\ atomic' = atomic
            /\ lastCall' = CallOn(s, "doca_rdma_task_atomic_cmp_swp_allocate_init",
                                  ctx[s], c, conn[s][c].st, DOCA_ERROR_NO_MEMORY)
    /\ UNCHANGED <<reg, rxq, queue, sem, fadd, kind, ctx, props, numTasks, task, conn, wire, listening, inPoll, cb>>

\* Result of doca_task_submit() for the atomic task: the context must be
\* running and the connection of the task established.
AtomicSubmitResult(s) ==
    IF ctx[s] # "Running" \/ conn[s][atomic.c].st # "Established"
    THEN DOCA_ERROR_BAD_STATE ELSE DOCA_SUCCESS

\* doca_task_submit(doca_rdma_task_atomic_cmp_swp_as_task(task)).
doca_task_submit_atomic_cmp_swp(s) ==
    /\ AppCanCall(s)
    /\ atomic.st \in {"Allocated", "Completed"}
    /\ LET r == AtomicSubmitResult(s) IN
       /\ atomic' = IF r = DOCA_SUCCESS
                    THEN [atomic EXCEPT !.st = "Submitted", !.hw = "none"]
                    ELSE atomic
       /\ lastCall' = CallOn(s, "doca_task_submit", ctx[s], 0, conn[s][atomic.c].st, r)
    /\ UNCHANGED <<reg, rxq, queue, sem, fadd, kind, ctx, props, numTasks, task, conn, wire, listening, inPoll, cb>>

\* doca_task_free(doca_rdma_task_atomic_cmp_swp_as_task(task)).
doca_task_free_atomic_cmp_swp(s) ==
    /\ AppCanCall(s)
    /\ atomic.st \in {"Allocated", "Completed"}
    /\ atomic' = [atomic EXCEPT !.st = "Pooled", !.c = 0, !.hw = "none"]
    /\ lastCall' = CallOn(s, "doca_task_free", ctx[s], 0, "-", DOCA_SUCCESS)
    /\ UNCHANGED <<reg, rxq, queue, sem, fadd, kind, ctx, props, numTasks, task, conn, wire, listening, inPoll, cb>>

CompareAndSwapLowWord(remote, cmp_data, swap_data) ==
    [dst |-> IF remote[2] = cmp_data[2] THEN swap_data ELSE remote, result |-> remote]

\* "This task compares an 8-byte value in the remote memory ... to a given 8-byte
\* value. If these values are equal, the remote 8-byte value is swapped with
\* another given 8-byte value, and otherwise it is left without change. The
\* original remote 8-byte value (before the swap, if occurred) is written to a
\* given local buffer."
CompareAndSwap(remote, cmp_data, swap_data) ==
    [dst |-> IF remote = cmp_data THEN swap_data ELSE remote, result |-> remote]

\* The submitted atomic task is executed on the memory of the peer: "The
\* process of reading the original remote 8-byte value, comparing it and
\* swapping it, is atomic", so it is one step.
AtomicExecute(s) ==
    /\ atomic.st = "Submitted" /\ atomic.hw = "none"
    /\ conn[s][atomic.c].st = "Established"
    /\ LET r == CompareAndSwap(atomic.dst, atomic.cmp, atomic.swap) IN
       atomic' = [atomic EXCEPT !.hw = "ok", !.dst = r.dst, !.result = r.result]
    /\ UNCHANGED <<reg, rxq, queue, sem, fadd, kind, ctx, props, numTasks, task, conn, wire, listening, inPoll, cb,
                   lastCall>>

\* The transport fails the submitted atomic task whose connection is gone: the
\* operation never reaches the peer.
AtomicFail(s) ==
    /\ atomic.st = "Submitted" /\ atomic.hw = "none"
    /\ conn[s][atomic.c].st # "Established"
    /\ atomic' = [atomic EXCEPT !.hw = "err"]
    /\ UNCHANGED <<reg, rxq, queue, sem, fadd, kind, ctx, props, numTasks, task, conn, wire, listening, inPoll, cb,
                   lastCall>>

\* The finished atomic task is identified as completed: its success or error
\* callback (doca_rdma_task_atomic_cmp_swp_completion_cb_t) runs and the task
\* belongs to the caller again.
PollAtomicCompletion(s) ==
    /\ EngineRuns(s)
    /\ atomic.st = "Submitted"
    /\ atomic.hw # "none"
    /\ atomic' = [atomic EXCEPT !.st = "Completed"]
    /\ cb' = [cb EXCEPT ![s] = [kind |-> "atomic_" \o atomic.hw, id |-> 0, ud |-> 0]]
    /\ UNCHANGED <<reg, rxq, queue, sem, fadd, kind, ctx, props, numTasks, task, conn, wire, listening, inPoll,
                   lastCall>>

\* ------------------------------------------------- atomic fetch and add
\* An 8-byte value (uint64_t add_data, the first 8 bytes of dst_buf and of
\* result_buf) as four 2-byte limbs, the most significant first.
LimbBase == 65536

Zero64 == <<0, 0, 0, 0>>

One64 == <<0, 0, 0, 1>>

Max64 == <<LimbBase - 1, LimbBase - 1, LimbBase - 1, LimbBase - 1>>

\* Addition of 8-byte values: limb by limb with carry, the carry out of the
\* most significant limb is lost (modulo 2^64).
Add64(a, b) ==
    LET s4 == a[4] + b[4]
        s3 == a[3] + b[3] + (s4 \div LimbBase)
        s2 == a[2] + b[2] + (s3 \div LimbBase)
        s1 == a[1] + b[1] + (s2 \div LimbBase)
    IN <<s1 % LimbBase, s2 % LimbBase, s3 % LimbBase, s4 % LimbBase>>

\* Addition on the low 4 bytes only.
Add32(a, b) ==
    LET s4 == a[4] + b[4]
        s3 == a[3] + b[3] + (s4 \div LimbBase)
    IN <<a[1], a[2], s3 % LimbBase, s4 % LimbBase>>

FetchAddIds == 1..MaxFetchAdd

\* The values an application passes as add_data, and the values dst_buf holds
\* when the tasks are allocated.
AddInputs == {Zero64, One64, Max64}

DstInputs == {Zero64, Max64}

\* A task doca_rdma_task_atomic_fetch_add_allocate_init() returned, with its
\* add_data and a zeroed result_buf; ord is the place the task got in the order
\* in which the operations were executed on the peer's memory (0: not yet).
AllocatedFetchAdd(add_data) ==
    [st |-> "Allocated", add |-> add_data, result |-> Zero64, hw |-> "none", ord |-> 0]

FetchAndAddLow32(remote, add_data) ==
    [dst |-> Add32(remote, add_data), result |-> remote]

\* "This task adds a given 8-byte value to an 8-byte value in the remote
\* memory ... The original remote 8-byte value (before the addition) is written
\* to a given local buffer."
FetchAndAdd(remote, add_data) ==
    [dst |-> Add64(remote, add_data), result |-> remote]

\* The fetch and add tasks that were executed.
Executed == {i \in DOMAIN fadd.task : fadd.task[i].ord # 0}

\* doca_task_submit(doca_rdma_task_atomic_fetch_add_as_task(task)).
doca_task_submit_atomic_fetch_add(s, i) ==
    /\ AppCanCall(s)
    /\ i \in DOMAIN fadd.task
    /\ fadd.task[i].st = "Allocated"
    /\ LET r == IF ctx[s] = "Running" /\ conn[s][1].st = "Established"
                THEN DOCA_SUCCESS ELSE DOCA_ERROR_BAD_STATE IN
       /\ fadd' = IF r = DOCA_SUCCESS THEN [fadd EXCEPT !.task[i].st = "Submitted"] ELSE fadd
       /\ lastCall' = CallOn(s, "doca_task_submit", ctx[s], i, conn[s][1].st, r)
    /\ UNCHANGED <<reg, rxq, queue, sem, atomic, kind, ctx, props, numTasks, task, conn, wire, listening,
                   inPoll, cb>>

\* A submitted fetch and add task is executed on the memory of the peer: "The
\* process of reading the original remote 8-byte value and adding to it, is
\* atomic", so it is one step, whatever other tasks are in flight.
FetchAddExecute(s, i) ==
    /\ i \in DOMAIN fadd.task
    /\ fadd.task[i].st = "Submitted" /\ fadd.task[i].hw = "none"
    /\ conn[s][1].st = "Established"
    /\ LET r == FetchAndAdd(fadd.dst, fadd.task[i].add) IN
       fadd' = [fadd EXCEPT !.dst = r.dst,
                            !.task[i].result = r.result,
                            !.task[i].hw = "ok",
                            !.task[i].ord = Cardinality(Executed) + 1]
    /\ UNCHANGED <<reg, rxq, queue, sem, atomic, kind, ctx, props, numTasks, task, conn, wire, listening,
                   inPoll, cb, lastCall>>

\* A finished fetch and add task is identified as completed: its completion
\* callback (doca_rdma_task_atomic_fetch_add_completion_cb_t) runs.
PollFetchAddCompletion(s, i) ==
    /\ EngineRuns(s)
    /\ i \in DOMAIN fadd.task
    /\ fadd.task[i].st = "Submitted"
    /\ fadd.task[i].hw # "none"
    /\ fadd' = [fadd EXCEPT !.task[i].st = "Completed"]
    /\ cb' = [cb EXCEPT ![s] = [kind |-> "fetch_add_" \o fadd.task[i].hw, id |-> i, ud |-> 0]]
    /\ UNCHANGED <<reg, rxq, queue, sem, atomic, kind, ctx, props, numTasks, task, conn, wire, listening,
                   inPoll, lastCall>>

\* -------------------------------------------------------- GPU semaphore
DOCA_ERROR_NOT_PERMITTED == "DOCA_ERROR_NOT_PERMITTED"

\* enum doca_gpu_semaphore_status, the values a semaphore item takes.
SemStatuses == {"FREE", "READY", "DONE"}

SemThreads == 1..MaxThreads

\* A CUDA thread that has not called yet.
IdleThread == [pc |-> "idle", cmp |-> "-", val |-> "-", ret |-> "-"]

CompareAndSetAlways(status, status_compare, status_val) ==
    [status |-> status_val, ret |-> DOCA_SUCCESS]

\* "Set DOCA GPUNetIO semaphore status from GPU using an atomic CAS operation":
\* status_val is the "new value if status comparison return true", and
\* DOCA_ERROR_NOT_PERMITTED is returned "if status_compare doesn't match with
\* actual semaphore status".
CompareAndSet(status, status_compare, status_val) ==
    IF status = status_compare
    THEN [status |-> status_val, ret |-> DOCA_SUCCESS]
    ELSE [status |-> status, ret |-> DOCA_ERROR_NOT_PERMITTED]

\* Thread th calls doca_gpu_dev_semaphore_set_status_cas(semaphore_gpu, idx,
\* status_compare, status_val) on the item.
doca_gpu_dev_semaphore_set_status_cas(th, status_compare, status_val) ==
    /\ th \in DOMAIN sem.thread
    /\ sem.thread[th].pc = "idle"
    /\ sem' = [sem EXCEPT !.thread[th] = [pc |-> "called", cmp |-> status_compare,
                                          val |-> status_val, ret |-> "-"]]
    /\ UNCHANGED <<reg, rxq, rdmaVars, queue>>

\* The atomic CAS operation of a call in progress acts on the item and the call
\* returns; calls of other threads may be in progress at the same time, the
\* operations act one at a time.
SemaphoreCas(th) ==
    /\ th \in DOMAIN sem.thread
    /\ sem.thread[th].pc = "called"
    /\ LET r == CompareAndSet(sem.status, sem.thread[th].cmp, sem.thread[th].val) IN
       sem' = [sem EXCEPT !.status = r.status,
                          !.thread[th].pc = "returned",
                          !.thread[th].ret = r.ret]
    /\ UNCHANGED <<reg, rxq, rdmaVars, queue>>

\* ------------------------------------------------------------ GPU queues
\* The queues a CUDA kernel drives: the RDMA queue (write, read, send), the
\* RDMA Recv queue, the Ethernet send queue and the DMA queue.
QueueTypes == {"rdma", "rdma_recv", "eth", "dma"}

\* The *_weak functions take the position of the descriptor from the caller,
\* the *_strong functions derive it; doca_gpu_dev_dma_memcpy() takes no
\* position.
QueueModes(type) == IF type = "dma" THEN {"strong"} ELSE {"weak", "strong"}

\* The queues with a wait function that takes a wait mode.
WaitTypes == {"rdma_recv", "eth"}

DOCA_GPU_WAIT_FLAG_NB == "NB"

DOCA_GPU_WAIT_FLAG_B == "B"

\* The operations of the kernel, one per CUDA thread, and the positions of a
\* queue with room for them: 0 .. mask_max_position.
OpIds == 1..MaxOps

RingSize == CHOOSE p \in {2 ^ k : k \in 0..MaxOps} :
               p >= MaxOps /\ \A q \in {2 ^ k : k \in 0..MaxOps} : q >= MaxOps => p <= q

Positions == 0..(RingSize - 1)

NotWaiting == [st |-> "idle", mode |-> "-", n |-> 0, got |-> 0]

\* A queue the kernel has not touched: no descriptor written (0), nothing
\* committed; info is the curr_position get_info() returned (-1: not called).
\* slot is the descriptor ring, calls the order of the enqueue calls, commits
\* the counts of the commits, curr the curr_position the library keeps, next
\* the descriptor a strong enqueue reserves, pushed the position up to which an
\* Ethernet queue was flushed, done the operations the transport executed and
\* completed, reaped the completions a wait function reported; undefined is
\* set when the kernel breaks the rules of the weak functions, and the kernel
\* is not followed further from there.
EmptyQueue(type, mode) ==
    [type |-> type, mode |-> mode, slot |-> [p \in Positions |-> 0], info |-> -1,
     calls |-> <<>>, commits |-> <<>>, curr |-> 0, next |-> 0, pushed |-> 0,
     done |-> <<>>, reaped |-> 0, undefined |-> FALSE, wait |-> NotWaiting]

Enqueued == {queue.calls[k] : k \in 1..Len(queue.calls)}

\* The kernel runs on a queue and has kept to the rules so far.
KernelRuns == queue.type # "-" /\ ~queue.undefined

\* doca_gpu_dev_rdma_get_info(), doca_gpu_dev_rdma_recv_get_info(),
\* doca_gpu_dev_eth_txq_get_info(): "Next available packet position in the
\* queue", updated "after every ..._commit_*()".
QueueGetInfo ==
    /\ KernelRuns
    /\ queue.type # "dma"
    /\ queue.info # queue.curr
    /\ queue' = [queue EXCEPT !.info = queue.curr]
    /\ UNCHANGED <<reg, rxq, rdmaVars, sem>>

\* Thread th calls a *_weak enqueue function with a position: the descriptor
\* is written at that position. "It's developer responsibility to enqueue
\* ... in sequential position index": writing over a descriptor not yet
\* executed, or at a position already committed, is outside the contract.
EnqueueWeak(th, position) ==
    /\ KernelRuns /\ queue.mode = "weak"
    /\ th \notin Enqueued
    /\ queue' = [queue EXCEPT !.slot[position] = th,
                              !.calls = Append(@, th),
                              !.undefined = @ \/ queue.slot[position] # 0
                                              \/ position < queue.curr]
    /\ UNCHANGED <<reg, rxq, rdmaVars, sem>>

StrongPositionOfThread(q, th) == (q.next + th) % RingSize

\* The position a *_strong enqueue function derives: the next descriptor.
StrongPosition(q, th) == q.next

\* Thread th calls a *_strong enqueue function (or doca_gpu_dev_dma_memcpy):
\* "Multiple threads can invoke this function", each call reserves the next
\* descriptor in one atomic step and writes it.
EnqueueStrong(th) ==
    /\ KernelRuns /\ queue.mode = "strong"
    /\ th \notin Enqueued
    /\ queue' = [queue EXCEPT !.slot[StrongPosition(queue, th)] = th,
                              !.calls = Append(@, th),
                              !.next = @ + 1]
    /\ UNCHANGED <<reg, rxq, rdmaVars, sem>>

CommitPointShort(curr_position, num_ops) == curr_position + num_ops - 1

\* The commit point of a commit of num_ops operations: the descriptors before
\* it are committed.
CommitPoint(curr_position, num_ops) == curr_position + num_ops

\* doca_gpu_dev_rdma_commit_weak(), doca_gpu_dev_rdma_recv_commit_weak(),
\* doca_gpu_dev_eth_txq_commit_weak() with the "Number of ... operations
\* enqueued since last commit"; a count that covers a position nothing was
\* enqueued at commits a descriptor the kernel never wrote.
CommitWeak(num_ops) ==
    /\ KernelRuns /\ queue.mode = "weak"
    /\ queue.wait.st # "waiting"
    /\ CommitPoint(queue.curr, num_ops) <= MaxOps
    /\ queue' = [queue EXCEPT
          !.curr = CommitPoint(@, num_ops),
          !.commits = Append(@, num_ops),
          !.undefined = @ \/ \E p \in Positions :
                                /\ queue.curr <= p /\ p < queue.curr + num_ops
                                /\ queue.slot[p] = 0]
    /\ UNCHANGED <<reg, rxq, rdmaVars, sem>>

\* doca_gpu_dev_rdma_commit_strong(), doca_gpu_dev_rdma_recv_commit_strong(),
\* doca_gpu_dev_eth_txq_commit_strong(), doca_gpu_dev_dma_commit(): "Create a
\* commit point" after the descriptors reserved so far.
CommitStrong ==
    /\ KernelRuns /\ queue.mode = "strong"
    /\ queue.wait.st # "waiting"
    /\ queue.next > queue.curr
    /\ queue' = [queue EXCEPT !.curr = CommitPoint(@, queue.next - queue.curr),
                              !.commits = Append(@, queue.next - queue.curr)]
    /\ UNCHANGED <<reg, rxq, rdmaVars, sem>>

\* doca_gpu_dev_eth_txq_push(): "Flush the queue sending packets enqueued.
\* Must be invoked right after ..._commit_strong() or ..._commit_weak()."
doca_gpu_dev_eth_txq_push ==
    /\ KernelRuns
    /\ queue.type = "eth"
    /\ queue.wait.st # "waiting"
    /\ queue.pushed < queue.curr
    /\ queue' = [queue EXCEPT !.pushed = queue.curr]
    /\ UNCHANGED <<reg, rxq, rdmaVars, sem>>

VisibleWhenCommitted(q) == q.curr

\* The position up to which the transport takes descriptors: the commit point
\* ("Commit the RDMA queue executing the operations enqueued in it", "Commit
\* and execute the memory copies"), and on an Ethernet send queue the commit
\* point the queue was flushed at.
Visible(q) == IF q.type = "eth" THEN q.pushed ELSE q.curr

\* The transport executes and completes the next descriptor, in position
\* order: a send or a copy is carried out, a posted receive gets its data.
TransportExecute ==
    /\ KernelRuns
    /\ Len(queue.done) < Visible(queue)
    /\ queue.slot[Len(queue.done)] # 0
    /\ queue' = [queue EXCEPT !.done = Append(@, queue.slot[Len(queue.done)])]
    /\ UNCHANGED <<reg, rxq, rdmaVars, sem>>

\* Once the kernel has broken the rules of the weak functions nothing is
\* promised: the transport may complete any operation for a descriptor, and
\* one more than the descriptors it was given, or nothing.
TransportUndefined(x) ==
    /\ queue.type # "-"
    /\ queue.undefined
    /\ Len(queue.done) <= Visible(queue)
    /\ queue' = [queue EXCEPT !.done = Append(@, x)]
    /\ UNCHANGED <<reg, rxq, rdmaVars, sem>>

\* The completions not yet reported by a wait function.
Unreported(q) == Len(q.done) - q.reaped

\* One thread calls doca_gpu_dev_eth_txq_wait_completion(eth_txq, num_sends,
\* wait_mode, &num_completed) or doca_gpu_dev_rdma_recv_wait_all(rdma_r, flags,
\* &num_ops, ...); the latter awaits the receive operations committed.
WaitCall(wait_mode, num) ==
    /\ KernelRuns
    /\ queue.type \in WaitTypes
    /\ queue.wait.st # "waiting"
    /\ queue.curr > queue.reaped
    /\ queue.type = "rdma_recv" => num = queue.curr - queue.reaped
    /\ queue' = [queue EXCEPT !.wait = [st |-> "waiting", mode |-> wait_mode,
                                        n |-> num, got |-> 0]]
    /\ UNCHANGED <<reg, rxq, rdmaVars, sem>>

WaitMayReturnAnyMode(q) == TRUE

\* "Non-Blocking mode: ... checks if ... operations completed ... and exit from
\* the function. If nothing has been [sent/received], the function doesn't block
\* the execution"; "Blocking mode: ... blocks the execution waiting for all the
\* ... operations to be completed".
WaitMayReturn(q) == q.wait.mode = DOCA_GPU_WAIT_FLAG_NB \/ Unreported(q) >= q.wait.n

\* The wait function returns the number of completed operations it found.
WaitReturn ==
    /\ KernelRuns
    /\ queue.type \in WaitTypes
    /\ queue.wait.st = "waiting"
    /\ WaitMayReturn(queue)
    /\ LET found == IF Unreported(queue) < queue.wait.n
                    THEN Unreported(queue) ELSE queue.wait.n IN
       queue' = [queue EXCEPT !.wait.st = "returned",
                              !.wait.n = 0,
                              !.wait.got = found,
                              !.reaped = @ + found]
    /\ UNCHANGED <<reg, rxq, rdmaVars, sem>>

\* ------------------------------------------------ Ethernet receive queue
\* A receive queue no call is receiving on: net is the number of packets still
\* on their way to the queue, pending the packets that arrived and were not
\* yet received; max and timeout are the max_rx_pkts and timeout_ns of the call
\* in progress, got the packets it received so far, elapsed the time it has
\* waited; num_rx_pkts is what the last call reported.
IdleRxq(packets) ==
    [st |-> "idle", net |-> packets, pending |-> 0, max |-> 0, timeout |-> 0,
     got |-> 0, elapsed |-> 0, num_rx_pkts |-> 0]

ExitOnBoth(q) ==
    /\ q.max # 0 /\ q.got >= q.max
    /\ q.timeout # 0 /\ q.elapsed >= q.timeout

\* "Function will return upon receiving the indicated maximum number of packets
\* or waiting the indicated number of nanoseconds. If maximum number of packets
\* is 0, it's ignored and only the timeout indicates the exit condition. If
\* timeout is 0, it's ignored and only the maximum number of packets indicates
\* the exit condition. If both are 0, the function will never return."
ExitCondition(q) ==
    \/ q.max # 0 /\ q.got >= q.max
    \/ q.timeout # 0 /\ q.elapsed >= q.timeout

\* A CUDA block calls doca_gpu_dev_eth_rxq_receive_block(eth_rxq, max_rx_pkts,
\* timeout_ns, &num_rx_pkts, &doca_gpu_buf_idx).
doca_gpu_dev_eth_rxq_receive_block(max_rx_pkts, timeout_ns) ==
    /\ rxq.st \in {"idle", "returned"}
    /\ rxq' = [rxq EXCEPT !.st = "receiving", !.max = max_rx_pkts, !.timeout = timeout_ns,
                          !.got = 0, !.elapsed = 0]
    /\ UNCHANGED <<reg, rdmaVars, sem, queue>>

\* A packet reaches the receive queue.
PacketArrives ==
    /\ rxq.st # "-"
    /\ rxq.net > 0
    /\ rxq' = [rxq EXCEPT !.net = @ - 1, !.pending = @ + 1]
    /\ UNCHANGED <<reg, rdmaVars, sem, queue>>

\* The call in progress takes a packet that arrived.
ReceivePacket ==
    /\ rxq.st = "receiving"
    /\ ~ExitCondition(rxq)
    /\ rxq.pending > 0
    /\ rxq' = [rxq EXCEPT !.pending = @ - 1, !.got = @ + 1]
    /\ UNCHANGED <<reg, rdmaVars, sem, queue>>

\* The call in progress finds that time has passed; with timeout_ns 0 "timeout
\* is not considered".
ReceiveWaits ==
    /\ rxq.st = "receiving"
    /\ ~ExitCondition(rxq)
    /\ rxq.timeout # 0
    /\ rxq' = [rxq EXCEPT !.elapsed = @ + 1]
    /\ UNCHANGED <<reg, rdmaVars, sem, queue>>

\* The call returns, with the "Number of actually received packets".
ReceiveReturn ==
    /\ rxq.st = "receiving"
    /\ ExitCondition(rxq)
    /\ rxq' = [rxq EXCEPT !.st = "returned", !.num_rx_pkts = rxq.got]
    /\ UNCHANGED <<reg, rdmaVars, sem, queue>>

\* ---------------------------------------------------------- specifications
UserData == {1, 2}

\* One context through its whole life, the peer behind the transport.
Next ==
    \/ doca_ctx_start("client")
    \/ doca_ctx_stop("client")
    \/ doca_rdma_destroy("client")
    \/ \E n \in 1..MaxTasks : doca_rdma_task_set_conf("client", n)
    \/ \E c \in IF TakesConnection("client") THEN Handles("client") ELSE {0} :
          doca_rdma_task_allocate_init("client", c, <<>>)
    \/ \E t \in TaskIds : doca_task_submit("client", t)
    \/ \E t \in TaskIds : doca_task_free("client", t)
    \/ \E ud \in UserData : doca_rdma_connect_to_addr("client", ud)
    \/ \E c \in ConnIds : doca_rdma_connection_disconnect("client", c)
    \/ pe_progress_call("client")
    \/ pe_progress_return("client")
    \/ CallbackReturn("client")
    \/ PollCtxRunning("client")
    \/ PollCtxStopped("client")
    \/ \E c \in ConnIds : PollConnectionAnswer("client", c)
    \/ \E c \in ConnIds : PollDisconnection("client", c)
    \/ \E c \in ConnIds : PollConnectionAbort("client", c)
    \/ \E c \in ConnIds : PollDropStale("client", c)
    \/ \E t \in TaskIds : PollTaskCompletion("client", t)
    \/ \E t \in TaskIds : TransportFail("client", t)
    \/ \E c \in ConnIds : \E m \in {"accept", "reject"} : RemoteAnswer("client", c, m)
    \/ \E c \in ConnIds : RemoteDisconnect("client", c)
    \/ \E c \in ConnIds : RemoteHears("client", c)
    \/ \E t \in TaskIds : RemoteServes("client", t)

Spec == Init /\ [][Next]_vars

\* Two running contexts, a connecting client that sends and a listening server
\* that receives: the state after both were configured and started and a poll
\* of each observed Running.
InitPair ==
    /\ kind = [s \in Sides |-> IF s = "client" THEN "send" ELSE "receive"]
    /\ ctx = [s \in Sides |-> "Running"]
    /\ props = [s \in Sides |-> [p \in PropNames |-> 0]]
    /\ numTasks = [s \in Sides |-> 1]
    /\ task = [s \in Sides |-> [t \in TaskIds |-> FreeTask]]
    /\ conn = [s \in Sides |-> [c \in {1} |-> NoConn]]
    /\ wire = [s \in Sides |-> [c \in {1} |-> <<>>]]
    /\ listening = [s \in Sides |-> FALSE]
    /\ inPoll = [s \in Sides |-> FALSE]
    /\ cb = [s \in Sides |-> NoCb]
    /\ lastCall = Call("server", "doca_pe_progress", "Starting", DOCA_SUCCESS)
    /\ atomic = NoAtomic
    /\ fadd = NoFetchAdd /\ sem = NoSem /\ queue = NoQueue /\ rxq = NoRxq /\ reg = NoReg

NextPair ==
    \/ \E s \in Sides : \E c \in IF TakesConnection(s) THEN Handles(s) ELSE {0} :
          doca_rdma_task_allocate_init(s, c, <<>>)
    \/ \E s \in Sides : \E t \in TaskIds : doca_task_submit(s, t)
    \/ \E s \in Sides : \E t \in TaskIds : doca_task_free(s, t)
    \/ \E s \in Sides : \E ud \in UserData : doca_rdma_connect_to_addr(s, ud)
    \/ \E s \in Sides : doca_rdma_start_listen_to_port(s)
    \/ \E s \in Sides : \E c \in ConnIds : doca_rdma_connection_accept(s, c)
    \/ \E s \in Sides : \E c \in ConnIds : doca_rdma_connection_reject(s, c)
    \/ \E s \in Sides : \E c \in ConnIds : doca_rdma_connection_disconnect(s, c)
    \/ \E s \in Sides : pe_progress_call(s)
    \/ \E s \in Sides : pe_progress_return(s)
    \/ \E s \in Sides : CallbackReturn(s)
    \/ \E s \in Sides : \E c \in ConnIds : PollConnectionRequest(s, c)
    \/ \E s \in Sides : \E c \in ConnIds : PollHandshake(s, c)
    \/ \E s \in Sides : \E c \in ConnIds : PollConnectionAnswer(s, c)
    \/ \E s \in Sides : \E c \in ConnIds : PollDisconnection(s, c)
    \/ \E s \in Sides : \E c \in ConnIds : PollDropStale(s, c)
    \/ \E s \in Sides : \E t \in TaskIds : PollTaskCompletion(s, t)
    \/ \E s \in Sides : \E c \in ConnIds : \E t, r \in TaskIds : TransportDeliver(s, c, t, r)
    \/ \E s \in Sides : \E t \in TaskIds : TransportFail(s, t)

SpecPair == InitPair /\ [][NextPair]_vars

\* Two running contexts and their connection, no task traffic.
InitConn ==
    /\ kind = [s \in Sides |-> IF s = "client" THEN "send" ELSE "receive"]
    /\ ctx = [s \in Sides |-> "Running"]
    /\ props = [s \in Sides |-> [p \in PropNames |-> 0]]
    /\ numTasks = [s \in Sides |-> 0]
    /\ task = [s \in Sides |-> [t \in TaskIds |-> FreeTask]]
    /\ conn = [s \in Sides |-> [c \in {1} |-> NoConn]]
    /\ wire = [s \in Sides |-> [c \in {1} |-> <<>>]]
    /\ listening = [s \in Sides |-> FALSE]
    /\ inPoll = [s \in Sides |-> FALSE]
    /\ cb = [s \in Sides |-> NoCb]
    /\ lastCall = Call("server", "doca_pe_progress", "Starting", DOCA_SUCCESS)
    /\ atomic = NoAtomic
    /\ fadd = NoFetchAdd /\ sem = NoSem /\ queue = NoQueue /\ rxq = NoRxq /\ reg = NoReg

NextConn ==
    \/ \E s \in Sides : \E ud \in UserData : doca_rdma_connect_to_addr(s, ud)
    \/ \E s \in Sides : doca_rdma_start_listen_to_port(s)
    \/ \E s \in Sides : \E c \in ConnIds : doca_rdma_connection_accept(s, c)
    \/ \E s \in Sides : \E c \in ConnIds : doca_rdma_connection_reject(s, c)
    \/ \E s \in Sides : \E c \in ConnIds : doca_rdma_connection_disconnect(s, c)
    \/ \E s \in Sides : \E c \in ConnIds : \E ud \in UserData :
          doca_rdma_connection_set_user_data(s, c, ud)
    \/ \E s \in Sides : pe_progress_call(s)
    \/ \E s \in Sides : pe_progress_return(s)
    \/ \E s \in Sides : CallbackReturn(s)
    \/ \E s \in Sides : \E c \in ConnIds : PollConnectionRequest(s, c)
    \/ \E s \in Sides : \E c \in ConnIds : PollHandshake(s, c)
    \/ \E s \in Sides : \E c \in ConnIds : PollConnectionAnswer(s, c)
    \/ \E s \in Sides : \E c \in ConnIds : PollDisconnection(s, c)
    \/ \E s \in Sides : \E c \in ConnIds : PollDropStale(s, c)

\* An application that has not constructed a context yet; it creates,
\* configures, starts, stops and destroys one, and queries the capabilities of
\* the device between any two of these steps.
InitCap ==
    /\ kind = [s \in Sides |-> IF s = "client" THEN "send" ELSE "receive"]
    /\ ctx = [s \in Sides |-> NoCtx]
    /\ props = [s \in Sides |-> [p \in PropNames |-> 0]]
    /\ numTasks = [s \in Sides |-> 0]
    /\ task = [s \in Sides |-> [t \in TaskIds |-> FreeTask]]
    /\ conn = [s \in Sides |-> [c \in {1} |-> NoConn]]
    /\ wire = [s \in Sides |-> [c \in {1} |-> <<>>]]
    /\ listening = [s \in Sides |-> FALSE]
    /\ inPoll = [s \in Sides |-> FALSE]
    /\ cb = [s \in Sides |-> NoCb]
    /\ lastCall = Call("client", "-", NoCtx, DOCA_SUCCESS)
    /\ atomic = NoAtomic
    /\ fadd = NoFetchAdd /\ sem = NoSem /\ queue = NoQueue /\ rxq = NoRxq /\ reg = NoReg

NextCap ==
    \/ \E q \in CapQueries : doca_rdma_cap_query("client", q)
    \/ doca_rdma_create("client")
    \/ \E n \in 1..MaxTasks : doca_rdma_task_set_conf("client", n)
    \/ doca_ctx_start("client")
    \/ doca_ctx_stop("client")
    \/ doca_rdma_destroy("client")
    \/ pe_progress_call("client")
    \/ pe_progress_return("client")
    \/ PollCtxRunning("client")
    \/ PollCtxStopped("client")

SpecCap == InitCap /\ [][NextCap]_vars

\* Two running contexts and up to MaxConn connections; the server starts and
\* stops listening as it likes.
InitListen ==
    /\ kind = [s \in Sides |-> IF s = "client" THEN "send" ELSE "receive"]
    /\ ctx = [s \in Sides |-> "Running"]
    /\ props = [s \in Sides |-> [p \in PropNames |-> 0]]
    /\ numTasks = [s \in Sides |-> 0]
    /\ task = [s \in Sides |-> [t \in TaskIds |-> FreeTask]]
    /\ conn = [s \in Sides |-> [c \in 1..MaxConn |-> NoConn]]
    /\ wire = [s \in Sides |-> [c \in 1..MaxConn |-> <<>>]]
    /\ listening = [s \in Sides |-> FALSE]
    /\ inPoll = [s \in Sides |-> FALSE]
    /\ cb = [s \in Sides |-> NoCb]
    /\ lastCall = Call("server", "doca_pe_progress", "Starting", DOCA_SUCCESS)
    /\ atomic = NoAtomic
    /\ fadd = NoFetchAdd /\ sem = NoSem /\ queue = NoQueue /\ rxq = NoRxq /\ reg = NoReg

NextListen ==
    \/ doca_rdma_connect_to_addr("client", 1)
    \/ doca_rdma_start_listen_to_port("server")
    \/ doca_rdma_stop_listen_to_port("server")
    \/ \E c \in ConnIds : doca_rdma_connection_accept("server", c)
    \/ \E s \in Sides : \E c \in ConnIds : doca_rdma_connection_disconnect(s, c)
    \/ \E s \in Sides : pe_progress_call(s)
    \/ \E s \in Sides : pe_progress_return(s)
    \/ \E s \in Sides : CallbackReturn(s)
    \/ \E c \in ConnIds : PollConnectionRequest("server", c)
    \/ \E c \in ConnIds : PollHandshake("server", c)
    \/ \E c \in ConnIds : PollConnectionAnswer("client", c)
    \/ \E s \in Sides : \E c \in ConnIds : PollDisconnection(s, c)
    \/ \E s \in Sides : \E c \in ConnIds : PollDropStale(s, c)

SpecListen == InitListen /\ [][NextListen]_vars

\* Both applications keep calling doca_pe_progress(), a poll pass handles what
\* is pending for it and returns, and callbacks return.
FairConn ==
    \A s \in Sides :
        /\ WF_vars(pe_progress_call(s))
        /\ SF_vars(pe_progress_return(s))
        /\ WF_vars(CallbackReturn(s))
        /\ SF_vars(PollConnectionRequest(s, 1))
        /\ SF_vars(PollHandshake(s, 1))
        /\ SF_vars(PollConnectionAnswer(s, 1))
        /\ SF_vars(PollDisconnection(s, 1))

SpecConn == InitConn /\ [][NextConn]_vars /\ FairConn

\* A sending client and a receiving server on an established connection: the
\* state after the handshake of connection 1, a pool of one task each.
EstablishedConn(s) ==
    [NoConn EXCEPT !.st = "Established", !.est = 1, !.req = IF s = "server" THEN 1 ELSE 0]

InitSend ==
    /\ kind = [s \in Sides |-> IF s = "client" THEN "send" ELSE "receive"]
    /\ ctx = [s \in Sides |-> "Running"]
    /\ props = [s \in Sides |-> [p \in PropNames |-> 0]]
    /\ numTasks = [s \in Sides |-> 1]
    /\ task = [s \in Sides |-> [t \in TaskIds |-> FreeTask]]
    /\ conn = [s \in Sides |-> [c \in {1} |-> EstablishedConn(s)]]
    /\ wire = [s \in Sides |-> [c \in {1} |-> <<>>]]
    /\ listening = [s \in Sides |-> s = "server"]
    /\ inPoll = [s \in Sides |-> FALSE]
    /\ cb = [s \in Sides |-> NoCb]
    /\ lastCall = Call("server", "doca_pe_progress", "Running", DOCA_SUCCESS)
    /\ atomic = NoAtomic
    /\ fadd = NoFetchAdd /\ sem = NoSem /\ queue = NoQueue /\ rxq = NoRxq /\ reg = NoReg

NextSend ==
    \/ \E s \in Sides : \E c \in IF TakesConnection(s) THEN Handles(s) ELSE {0} :
          \E b \in Buffers(KindOf(s)) : doca_rdma_task_allocate_init(s, c, b)
    \/ \E s \in Sides : \E t \in TaskIds : doca_task_submit(s, t)
    \/ \E s \in Sides : \E t \in TaskIds : doca_task_free(s, t)
    \/ \E s \in Sides : pe_progress_call(s)
    \/ \E s \in Sides : pe_progress_return(s)
    \/ \E s \in Sides : CallbackReturn(s)
    \/ \E s \in Sides : \E t \in TaskIds : PollTaskCompletion(s, t)
    \/ \E s \in Sides : \E c \in ConnIds : \E t, r \in TaskIds : TransportDeliver(s, c, t, r)
    \/ \E s \in Sides : \E c \in ConnIds : \E t, r \in TaskIds : TransportOverflow(s, c, t, r)

SpecSend == InitSend /\ [][NextSend]_vars

\* One running context with an established connection and a pool of MaxTasks
\* tasks, up to its stop and drain; the application keeps calling
\* doca_pe_progress(), a poll pass handles what is pending for it and returns,
\* callbacks return.
InitDrain ==
    /\ \E k \in Kinds : kind = [s \in Sides |-> IF s = "client" THEN k ELSE "receive"]
    /\ ctx = [s \in Sides |-> "Running"]
    /\ props = [s \in Sides |-> [p \in PropNames |-> 0]]
    /\ numTasks = [s \in Sides |-> IF s = "client" THEN MaxTasks ELSE 0]
    /\ task = [s \in Sides |-> [t \in TaskIds |-> FreeTask]]
    /\ conn = [s \in Sides |-> [c \in {1} |-> EstablishedConn(s)]]
    /\ wire = [s \in Sides |-> [c \in {1} |-> <<>>]]
    /\ listening = [s \in Sides |-> FALSE]
    /\ inPoll = [s \in Sides |-> FALSE]
    /\ cb = [s \in Sides |-> NoCb]
    /\ lastCall = Call("client", "doca_pe_progress", "Running", DOCA_SUCCESS)
    /\ atomic = NoAtomic
    /\ fadd = NoFetchAdd /\ sem = NoSem /\ queue = NoQueue /\ rxq = NoRxq /\ reg = NoReg

NextDrain ==
    \/ \E c \in IF TakesConnection("client") THEN Handles("client") ELSE {0} :
          doca_rdma_task_allocate_init("client", c, <<>>)
    \/ \E t \in TaskIds : doca_task_submit("client", t)
    \/ \E t \in TaskIds : doca_task_free("client", t)
    \/ \E c \in ConnIds : doca_rdma_connection_disconnect("client", c)
    \/ doca_ctx_stop("client")
    \/ pe_progress_call("client")
    \/ pe_progress_return("client")
    \/ CallbackReturn("client")
    \/ PollCtxStopped("client")
    \/ \E c \in ConnIds : PollDisconnection("client", c)
    \/ \E c \in ConnIds : PollDropStale("client", c)
    \/ \E t \in TaskIds : PollTaskCompletion("client", t)
    \/ \E t \in TaskIds : TransportFail("client", t)
    \/ \E c \in ConnIds : RemoteDisconnect("client", c)
    \/ \E c \in ConnIds : RemoteHears("client", c)
    \/ \E t \in TaskIds : RemoteServes("client", t)

FairDrain ==
    /\ WF_vars(pe_progress_call("client"))
    /\ SF_vars(pe_progress_return("client"))
    /\ WF_vars(CallbackReturn("client"))
    /\ SF_vars(PollCtxStopped("client"))
    /\ SF_vars(PollDisconnection("client", 1))
    /\ \A t \in TaskIds : SF_vars(PollTaskCompletion("client", t))

SpecDrain == InitDrain /\ [][NextDrain]_vars /\ FairDrain

\* One context that connects with doca_rdma_export() / doca_rdma_connect(),
\* through its whole life; a pool of one task.
InitExport ==
    /\ \E k \in Kinds : kind = [s \in Sides |-> IF s = "client" THEN k ELSE "receive"]
    /\ ctx = [s \in Sides |-> "Idle"]
    /\ props = [s \in Sides |-> [p \in PropNames |-> 0]]
    /\ numTasks = [s \in Sides |-> IF s = "client" THEN 1 ELSE 0]
    /\ task = [s \in Sides |-> [t \in TaskIds |-> FreeTask]]
    /\ conn = [s \in Sides |-> [c \in 1..MaxConn |-> NoConn]]
    /\ wire = [s \in Sides |-> [c \in 1..MaxConn |-> <<>>]]
    /\ listening = [s \in Sides |-> FALSE]
    /\ inPoll = [s \in Sides |-> FALSE]
    /\ cb = [s \in Sides |-> NoCb]
    /\ lastCall = Call("client", "doca_rdma_task_" \o kind["client"] \o "_set_conf", "Idle",
                       DOCA_SUCCESS)
    /\ atomic = NoAtomic
    /\ fadd = NoFetchAdd /\ sem = NoSem /\ queue = NoQueue /\ rxq = NoRxq /\ reg = NoReg

NextExport ==
    \/ doca_ctx_start("client")
    \/ doca_ctx_stop("client")
    \/ doca_rdma_export("client")
    \/ \E c \in ConnIds : doca_rdma_connect("client", c)
    \/ \E c \in IF TakesConnection("client") THEN Handles("client") ELSE {0} :
          doca_rdma_task_allocate_init("client", c, <<>>)
    \/ \E t \in TaskIds : doca_task_submit("client", t)
    \/ \E t \in TaskIds : doca_task_free("client", t)
    \/ pe_progress_call("client")
    \/ pe_progress_return("client")
    \/ CallbackReturn("client")
    \/ PollCtxRunning("client")
    \/ PollCtxStopped("client")
    \/ \E c \in ConnIds : PollDisconnection("client", c)
    \/ \E c \in ConnIds : PollConnectionAbort("client", c)
    \/ \E t \in TaskIds : PollTaskCompletion("client", t)
    \/ \E c \in ConnIds : RemoteConnects("client", c)
    \/ \E c \in ConnIds : RemoteHears("client", c)
    \/ \E t \in TaskIds : RemoteServes("client", t)

SpecExport == InitExport /\ [][NextExport]_vars

\* One running context with up to MaxConn connections, each with its own user
\* data, the peers behind the transport.
InitUserData ==
    /\ kind = [s \in Sides |-> IF s = "client" THEN "send" ELSE "receive"]
    /\ ctx = [s \in Sides |-> "Running"]
    /\ props = [s \in Sides |-> [p \in PropNames |-> 0]]
    /\ numTasks = [s \in Sides |-> 0]
    /\ task = [s \in Sides |-> [t \in TaskIds |-> FreeTask]]
    /\ conn = [s \in Sides |-> [c \in 1..MaxConn |-> NoConn]]
    /\ wire = [s \in Sides |-> [c \in 1..MaxConn |-> <<>>]]
    /\ listening = [s \in Sides |-> FALSE]
    /\ inPoll = [s \in Sides |-> FALSE]
    /\ cb = [s \in Sides |-> NoCb]
    /\ lastCall = Call("client", "doca_pe_progress", "Starting", DOCA_SUCCESS)
    /\ atomic = NoAtomic
    /\ fadd = NoFetchAdd /\ sem = NoSem /\ queue = NoQueue /\ rxq = NoRxq /\ reg = NoReg

NextUserData ==
    \/ \E ud \in UserData : doca_rdma_connect_to_addr("client", ud)
    \/ \E c \in ConnIds : \E ud \in UserData :
          doca_rdma_connection_set_user_data("client", c, ud)
    \/ \E c \in ConnIds : doca_rdma_connection_disconnect("client", c)
    \/ pe_progress_call("client")
    \/ pe_progress_return("client")
    \/ CallbackReturn("client")
    \/ \E c \in ConnIds : PollConnectionAnswer("client", c)
    \/ \E c \in ConnIds : PollDisconnection("client", c)
    \/ \E c \in ConnIds : PollDropStale("client", c)
    \/ \E c \in ConnIds : \E m \in {"accept", "reject"} : RemoteAnswer("client", c, m)
    \/ \E c \in ConnIds : RemoteDisconnect("client", c)
    \/ \E c \in ConnIds : RemoteHears("client", c)

SpecUserData == InitUserData /\ [][NextUserData]_vars

\* One context and its property setters.
NextProps ==
    \/ \E p \in PropNames : \E v \in PropInputs(p) : doca_rdma_set_property("client", p, v)
    \/ \E p \in PropNames : doca_rdma_get_property("client", p)
    \/ doca_ctx_start("client")
    \/ doca_ctx_stop("client")
    \/ doca_rdma_destroy("client")
    \/ pe_progress_call("client")
    \/ pe_progress_return("client")
    \/ PollCtxRunning("client")
    \/ PollCtxStopped("client")

SpecProps == Init /\ [][NextProps]_vars

\* One running client with an established connection and its atomic compare
\* and swap task, up to the loss of the connection; the 8 bytes of dst_buf in
\* the memory of the peer start with any value.
InitAtomic ==
    /\ kind = [s \in Sides |-> IF s = "client" THEN "send" ELSE "receive"]
    /\ ctx = [s \in Sides |-> "Running"]
    /\ props = [s \in Sides |-> [p \in PropNames |-> 0]]
    /\ numTasks = [s \in Sides |-> 0]
    /\ task = [s \in Sides |-> [t \in TaskIds |-> FreeTask]]
    /\ conn = [s \in Sides |-> [c \in {1} |-> EstablishedConn(s)]]
    /\ wire = [s \in Sides |-> [c \in {1} |-> <<>>]]
    /\ listening = [s \in Sides |-> FALSE]
    /\ inPoll = [s \in Sides |-> FALSE]
    /\ cb = [s \in Sides |-> NoCb]
    /\ lastCall = Call("client", "doca_pe_progress", "Running", DOCA_SUCCESS)
    /\ \E v \in Value64 : atomic = [NoAtomic EXCEPT !.dst = v]
    /\ fadd = NoFetchAdd /\ sem = NoSem /\ queue = NoQueue /\ rxq = NoRxq /\ reg = NoReg

NextAtomic ==
    \/ \E c \in Handles("client") : \E cmp_data, swap_data \in Value64 :
          doca_rdma_task_atomic_cmp_swp_allocate_init("client", c, cmp_data, swap_data)
    \/ doca_task_submit_atomic_cmp_swp("client")
    \/ doca_task_free_atomic_cmp_swp("client")
    \/ \E c \in ConnIds : doca_rdma_connection_disconnect("client", c)
    \/ pe_progress_call("client")
    \/ pe_progress_return("client")
    \/ CallbackReturn("client")
    \/ PollAtomicCompletion("client")
    \/ AtomicExecute("client")
    \/ AtomicFail("client")

SpecAtomic == InitAtomic /\ [][NextAtomic]_vars

\* The kernel state shared by the queue specifications.
InitKernel ==
    /\ kind = [s \in Sides |-> IF s = "client" THEN "send" ELSE "receive"]
    /\ ctx = [s \in Sides |-> "Running"]
    /\ props = [s \in Sides |-> [p \in PropNames |-> 0]]
    /\ numTasks = [s \in Sides |-> 0]
    /\ task = [s \in Sides |-> [t \in TaskIds |-> FreeTask]]
    /\ conn = [s \in Sides |-> [c \in {1} |-> EstablishedConn(s)]]
    /\ wire = [s \in Sides |-> [c \in {1} |-> <<>>]]
    /\ listening = [s \in Sides |-> FALSE]
    /\ inPoll = [s \in Sides |-> FALSE]
    /\ cb = [s \in Sides |-> NoCb]
    /\ lastCall = Call("client", "doca_pe_progress", "Running", DOCA_SUCCESS)
    /\ atomic = NoAtomic /\ fadd = NoFetchAdd /\ sem = NoSem

\* A CUDA kernel of MaxOps threads on one GPU queue of any type, used under
\* either discipline; every thread enqueues one operation, and one thread
\* commits, flushes and waits.
InitQueue ==
    /\ InitKernel
    /\ rxq = NoRxq /\ reg = NoReg
    /\ \E type \in QueueTypes : \E mode \in QueueModes(type) :
          queue = EmptyQueue(type, mode)

NextQueue ==
    \/ QueueGetInfo
    \/ \E th \in OpIds : \E position \in Positions : EnqueueWeak(th, position)
    \/ \E th \in OpIds : EnqueueStrong(th)
    \/ \E num_ops \in OpIds : CommitWeak(num_ops)
    \/ CommitStrong
    \/ doca_gpu_dev_eth_txq_push
    \/ TransportExecute
    \/ \E x \in OpIds : TransportUndefined(x)
    \/ \E wait_mode \in {DOCA_GPU_WAIT_FLAG_NB, DOCA_GPU_WAIT_FLAG_B} : \E num \in OpIds :
          WaitCall(wait_mode, num)
    \/ WaitReturn

SpecQueue == InitQueue /\ [][NextQueue]_vars

\* A CUDA block that calls doca_gpu_dev_eth_rxq_receive_block() again and
\* again, with any max_rx_pkts and timeout_ns, on a queue that some packets
\* reach, at any time; the clock advances and the call does not stall.
InitRx ==
    /\ InitKernel
    /\ queue = NoQueue /\ reg = NoReg
    /\ \E packets \in 0..(MaxRxPkts + 1) : rxq = IdleRxq(packets)

NextRx ==
    \/ \E max_rx_pkts \in 0..MaxRxPkts : \E timeout_ns \in 0..MaxTimeout :
          doca_gpu_dev_eth_rxq_receive_block(max_rx_pkts, timeout_ns)
    \/ PacketArrives
    \/ ReceivePacket
    \/ ReceiveWaits
    \/ ReceiveReturn

SpecRxFair ==
    InitRx /\ [][NextRx]_vars /\ WF_vars(ReceiveWaits) /\ WF_vars(ReceiveReturn)

\* ---- The descriptor ring of a GPU queue over several rounds ----
\* A position index is a uint32_t, kept as two limbs of 16 bits.
Index32(lo, hi) == [lo |-> lo, hi |-> hi]

\* position + n in uint32_t, 0 <= n < LimbBase.
AddIndex(position, n) ==
    LET s == position.lo + n
    IN  Index32(s % LimbBase, (position.hi + (s \div LimbBase)) % LimbBase)

\* a & b of two numbers below LimbBase.
RECURSIVE BitAnd(_, _)
BitAnd(a, b) ==
    IF a = 0 \/ b = 0 THEN 0
    ELSE ((a % 2) * (b % 2)) + 2 * BitAnd(a \div 2, b \div 2)

MaskIsSize(size) == size

\* mask_max_position, the "Mask of the max index position usable in this
\* queue" of a queue of size descriptors.
MaskMaxPosition(size) == size - 1

\* "The position index should be always masked with mask_max_position
\* value": position & mask_max_position, the mask below LimbBase.
Masked(position, mask_max_position) == BitAnd(position.lo, mask_max_position)

RingThreads == 1 .. MaxThreads

NoInfo == [curr_position |-> Index32(0, 0), mask_max_position |-> -1]

\* The positions the kernel starts at: a fresh queue, and a queue used until
\* its position index is two short of 2^32.
StartInputs == {Index32(0, 0), Index32(LimbBase - 2, LimbBase - 1)}

\* A queue of RingSize descriptors the kernel has not touched. curr is the
\* curr_position the library keeps, next the position the next strong enqueue
\* reserves, head the position the transport executes next, pushed the commit
\* point an Ethernet queue was flushed at; slot holds the thread whose
\* descriptor is in it (0: free), held the position a thread reserved and has
\* not written yet, granted the positions reserved by the strong enqueues in
\* the order of their reservation; written counts the weak enqueues since the
\* last commit, inside the descriptors written and not executed, ops the
\* enqueue calls so far; last is the last call.
EmptyRing(type, mode, start) ==
    [type |-> type, mode |-> mode, ring |-> TRUE, undefined |-> FALSE,
     mask |-> MaskMaxPosition(RingSize),
     curr |-> start, next |-> start, head |-> start, pushed |-> start,
     slot |-> [p \in Positions |-> 0], held |-> [th \in RingThreads |-> NoInfo.curr_position],
     holds |-> {}, granted |-> <<>>, written |-> 0, inside |-> 0, ops |-> 0,
     info |-> NoInfo, last |-> [op |-> "-", n |-> 0, at |-> 0]]

\* doca_gpu_dev_rdma_get_info(), doca_gpu_dev_eth_txq_get_info(): the current
\* position and the mask.
RingGetInfo ==
    /\ queue.last.op # "get_info"
    /\ queue' = [queue EXCEPT
          !.info = [curr_position |-> queue.curr, mask_max_position |-> queue.mask],
          !.last = [op |-> "get_info", n |-> 0, at |-> 0]]
    /\ UNCHANGED <<reg, rxq, rdmaVars, sem>>

\* A thread calls a *_weak enqueue with the next sequential position after the
\* curr_position get_info() returned, masked; the descriptor is written.
RingEnqueueWeak(th) ==
    /\ queue.mode = "weak"
    /\ queue.ops < MaxRounds * RingSize
    /\ queue.inside < RingSize
    /\ queue.info.curr_position = queue.curr /\ queue.info.mask_max_position = queue.mask
    /\ LET position == AddIndex(queue.info.curr_position, queue.written)
           at == Masked(position, queue.info.mask_max_position)
       IN  queue' = [queue EXCEPT !.slot[at] = th,
                                  !.written = @ + 1, !.inside = @ + 1, !.ops = @ + 1,
                                  !.last = [op |-> "enqueue", n |-> 0, at |-> at]]
    /\ UNCHANGED <<reg, rxq, rdmaVars, sem>>

AfterReserveSame(position) == position

\* The position the next strong enqueue reserves after this one.
AfterReserve(position) == AddIndex(position, 1)

\* A thread calls a *_strong enqueue: "Multiple threads can invoke this
\* function"; the call first reserves the next position in one atomic step,
RingReserveStrong(th) ==
    /\ queue.mode = "strong"
    /\ queue.ops < MaxRounds * RingSize
    /\ queue.inside + Cardinality(queue.holds) < RingSize
    /\ th \notin queue.holds
    /\ queue' = [queue EXCEPT !.held[th] = queue.next,
                              !.holds = @ \cup {th},
                              !.granted = Append(@, queue.next),
                              !.next = AfterReserve(@),
                              !.ops = @ + 1,
                              !.last = [op |-> "reserve", n |-> 0, at |-> 0]]
    /\ UNCHANGED <<reg, rxq, rdmaVars, sem>>

\* and then writes the descriptor at the position it reserved.
RingWriteStrong(th) ==
    /\ queue.mode = "strong"
    /\ th \in queue.holds
    /\ LET at == Masked(queue.held[th], queue.mask)
       IN  queue' = [queue EXCEPT !.slot[at] = th,
                                  !.holds = @ \ {th},
                                  !.inside = @ + 1,
                                  !.last = [op |-> "enqueue", n |-> 0, at |-> at]]
    /\ UNCHANGED <<reg, rxq, rdmaVars, sem>>

\* doca_gpu_dev_rdma_commit_weak(), doca_gpu_dev_eth_txq_commit_weak() with the
\* number of elements enqueued since the last commit.
RingCommitWeak(elements) ==
    /\ queue.mode = "weak"
    /\ elements > 0 /\ elements = queue.written
    /\ queue' = [queue EXCEPT !.curr = AddIndex(@, elements),
                              !.written = 0,
                              !.last = [op |-> "commit_weak", n |-> elements, at |-> 0]]
    /\ UNCHANGED <<reg, rxq, rdmaVars, sem>>

\* doca_gpu_dev_rdma_commit_strong(), doca_gpu_dev_eth_txq_commit_strong(),
\* called by one thread after the threads of the kernel have enqueued.
RingCommitStrong ==
    /\ queue.mode = "strong"
    /\ queue.holds = {}
    /\ queue.next # queue.curr
    /\ queue' = [queue EXCEPT !.curr = queue.next,
                              !.last = [op |-> "commit_strong", n |-> 0, at |-> 0]]
    /\ UNCHANGED <<reg, rxq, rdmaVars, sem>>

\* doca_gpu_dev_eth_txq_push() on a ring.
RingPush ==
    /\ queue.type = "eth"
    /\ queue.pushed # queue.curr
    /\ queue' = [queue EXCEPT !.pushed = queue.curr,
                              !.last = [op |-> "push", n |-> 0, at |-> 0]]
    /\ UNCHANGED <<reg, rxq, rdmaVars, sem>>

\* The transport executes the oldest descriptor it was given; its slot is
\* free again.
RingExecute ==
    /\ queue.head # Visible(queue)
    /\ LET at == Masked(queue.head, queue.mask)
       IN  queue' = [queue EXCEPT !.slot[at] = 0,
                                  !.head = AddIndex(@, 1),
                                  !.inside = @ - 1,
                                  !.last = [op |-> "execute", n |-> 0, at |-> at]]
    /\ UNCHANGED <<reg, rxq, rdmaVars, sem>>

\* A kernel of MaxThreads threads that enqueues MaxRounds times the size of
\* the queue, with the weak or with the strong functions, on an RDMA or an
\* Ethernet send queue.
InitRing ==
    /\ InitKernel
    /\ rxq = NoRxq /\ reg = NoReg
    /\ \E type \in {"rdma", "eth"}, mode \in {"weak", "strong"}, start \in StartInputs :
          queue = EmptyRing(type, mode, start)

NextRing ==
    \/ RingGetInfo
    \/ \E th \in RingThreads : RingEnqueueWeak(th)
    \/ \E th \in RingThreads : RingReserveStrong(th)
    \/ \E th \in RingThreads : RingWriteStrong(th)
    \/ \E elements \in 1 .. RingSize : RingCommitWeak(elements)
    \/ RingCommitStrong
    \/ RingPush
    \/ RingExecute

SpecRing == InitRing /\ [][NextRing]_vars

\* A kernel that drives an RDMA queue with the weak functions; the transport
\* does not stall: a committed descriptor is eventually executed.
InitWeak ==
    /\ InitKernel
    /\ rxq = NoRxq /\ reg = NoReg
    /\ queue = EmptyQueue("rdma", "weak")

NextWeak ==
    \/ QueueGetInfo
    \/ \E th \in OpIds : \E position \in Positions : EnqueueWeak(th, position)
    \/ \E num_ops \in OpIds : CommitWeak(num_ops)
    \/ TransportExecute
    \/ \E x \in OpIds : TransportUndefined(x)

SpecWeakFair == InitWeak /\ [][NextWeak]_vars /\ WF_vars(TransportExecute)

\* A kernel that enqueues with the strong functions in an Ethernet send queue
\* or an RDMA Recv queue and waits for completions in either wait mode;
\* neither the transport nor the wait function stalls: a visible descriptor is
\* eventually executed, and a wait function that may return returns.
InitWait ==
    /\ InitKernel
    /\ rxq = NoRxq /\ reg = NoReg
    /\ \E type \in WaitTypes : queue = EmptyQueue(type, "strong")

NextWait ==
    \/ \E th \in OpIds : EnqueueStrong(th)
    \/ CommitStrong
    \/ doca_gpu_dev_eth_txq_push
    \/ TransportExecute
    \/ \E wait_mode \in {DOCA_GPU_WAIT_FLAG_NB, DOCA_GPU_WAIT_FLAG_B} : \E num \in OpIds :
          WaitCall(wait_mode, num)
    \/ WaitReturn

SpecWaitFair ==
    InitWait /\ [][NextWait]_vars /\ WF_vars(TransportExecute) /\ WF_vars(WaitReturn)

\* A CUDA kernel of MaxThreads threads on one semaphore item that holds any
\* status when the kernel is launched (first); every thread calls
\* doca_gpu_dev_semaphore_set_status_cas() once, with any arguments.
InitSem ==
    /\ kind = [s \in Sides |-> IF s = "client" THEN "send" ELSE "receive"]
    /\ ctx = [s \in Sides |-> "Running"]
    /\ props = [s \in Sides |-> [p \in PropNames |-> 0]]
    /\ numTasks = [s \in Sides |-> 0]
    /\ task = [s \in Sides |-> [t \in TaskIds |-> FreeTask]]
    /\ conn = [s \in Sides |-> [c \in {1} |-> EstablishedConn(s)]]
    /\ wire = [s \in Sides |-> [c \in {1} |-> <<>>]]
    /\ listening = [s \in Sides |-> FALSE]
    /\ inPoll = [s \in Sides |-> FALSE]
    /\ cb = [s \in Sides |-> NoCb]
    /\ lastCall = Call("client", "doca_pe_progress", "Running", DOCA_SUCCESS)
    /\ atomic = NoAtomic /\ fadd = NoFetchAdd /\ queue = NoQueue /\ rxq = NoRxq /\ reg = NoReg
    /\ \E st \in SemStatuses :
          sem = [status |-> st, first |-> st, thread |-> [th \in SemThreads |-> IdleThread]]

NextSem ==
    \/ \E th \in SemThreads : \E c, v \in SemStatuses :
          doca_gpu_dev_semaphore_set_status_cas(th, c, v)
    \/ \E th \in SemThreads : SemaphoreCas(th)

SpecSem == InitSem /\ [][NextSem]_vars

\* ---- doca_bitfield.h ----
\* A word is the set of the indices of its 1 bits, bit 0 the least significant.

Families == {"U8", "BE16", "BE32"}

Width(f) == CASE f = "U8" -> 8 [] f = "BE16" -> 16 [] f = "BE32" -> 32

\* The width of int and of unsigned int, to which C promotes 8 and 16 bit operands.
IntWidth == Width("BE32")

AllOnes(w) == 0 .. (w - 1)

\* Conversion to an unsigned type of w bits.
Truncate(w, x) == x \cap AllOnes(w)

ShiftLeft(x, n) == Truncate(IntWidth, {i + n : i \in x})

ShiftRight(x, n) == {i - n : i \in {j \in x : j >= n}}

\* a - b in w bits, with the borrow out of the top bit.
Subtract(w, a, b) ==
    LET borrow[i \in 0 .. w] ==
            IF i = 0 THEN FALSE
            ELSE \/ (i - 1) \notin a /\ (i - 1) \in b
                 \/ ((i - 1) \in a) = ((i - 1) \in b) /\ borrow[i - 1]
    IN  [val |-> {i \in AllOnes(w) : (((i \in a) # (i \in b)) # borrow[i])}, out |-> borrow[w]]

\* a + b in w bits, with the carry out of the top bit.
Add(w, a, b) ==
    LET carry[i \in 0 .. w] ==
            IF i = 0 THEN FALSE
            ELSE \/ (i - 1) \in a /\ (i - 1) \in b
                 \/ ((i - 1) \in a) # ((i - 1) \in b) /\ carry[i - 1]
    IN  [val |-> {i \in AllOnes(w) : (((i \in a) # (i \in b)) # carry[i])}, out |-> carry[w]]

NoByteSwap(w, x) == Truncate(w, x)

\* htons, htonl, ntohs and ntohl reverse the bytes of the word on a little
\* endian host and are the identity on a big endian host.
ByteSwap(w, x) == {8 * ((w \div 8) - 1 - (i \div 8)) + (i % 8) : i \in Truncate(w, x)}

HostToBE(w, x) == IF reg.endian = "little" THEN ByteSwap(w, x) ELSE Truncate(w, x)

DOCA_HTOBE16(x) == HostToBE(16, x)

DOCA_HTOBE32(x) == HostToBE(32, x)

DOCA_BETOH16(x) == HostToBE(16, x)

DOCA_BETOH32(x) == HostToBE(32, x)

ShiftZero(x) == 0

\* __builtin_ffsll(_x) - 1: the index of the least significant 1 bit, -1 for 0.
DOCA_SHIFT(x) == IF x = {} THEN -1 ELSE CHOOSE i \in x : \A j \in x : i <= j

\* The intermediate values of (MAX + 1 - (1 << _l)).
MaskStepsAddFirst(w, l) ==
    LET one == ShiftLeft({0}, l)
        sum == Add(IntWidth, AllOnes(w), {0})
        diff == Subtract(IntWidth, sum.val, one)
    IN  [one |-> one, diff |-> [val |-> sum.val, out |-> sum.out], sum |-> diff]

\* The intermediate values of (MAX - (1 << _l) + 1), evaluated from left to
\* right in int (8 and 16 bit families) or in uint32_t.
MaskSteps(w, l) ==
    LET one == ShiftLeft({0}, l)
        diff == Subtract(IntWidth, AllOnes(w), one)
        sum == Add(IntWidth, diff.val, {0})
    IN  [one |-> one, diff |-> diff, sum |-> sum]

\* An intermediate value left the w bits of the family.
Overflows(w, l) ==
    LET st == MaskSteps(w, l)
    IN  \/ st.diff.out \/ st.sum.out
        \/ ~ (st.one \subseteq AllOnes(w))
        \/ ~ (st.diff.val \subseteq AllOnes(w))
        \/ ~ (st.sum.val \subseteq AllOnes(w))

GenMaskShortByOne(w, h, l) ==
    MaskSteps(w, l).sum.val \cap ShiftRight(AllOnes(w), w - h)

\* ((MAX - (1 << (_l)) + 1) & (MAX >> (w - 1 - (_h))))
GenMask(w, h, l) ==
    MaskSteps(w, l).sum.val \cap ShiftRight(AllOnes(w), w - 1 - h)

DOCA_U8_GENMASK(h, l) == GenMask(8, h, l)

DOCA_BE16_GENMASK(h, l) == DOCA_HTOBE16(GenMask(16, h, l))

DOCA_BE32_GENMASK(h, l) == DOCA_HTOBE32(GenMask(32, h, l))

\* ((_v << DOCA_SHIFT(_m)) & _m)
DOCA_U8_SET(m, v) == ShiftLeft(v, DOCA_SHIFT(m)) \cap m

\* ((DOCA_HTOBE16(_v << DOCA_SHIFT(DOCA_BETOH16(_m)))) & _m)
DOCA_BE16_SET(m, v) == DOCA_HTOBE16(ShiftLeft(v, DOCA_SHIFT(DOCA_BETOH16(m)))) \cap m

\* ((DOCA_HTOBE32(_v << DOCA_SHIFT(DOCA_BETOH32(_m)))) & _m)
DOCA_BE32_SET(m, v) == DOCA_HTOBE32(ShiftLeft(v, DOCA_SHIFT(DOCA_BETOH32(m)))) \cap m

\* (((_m) & (_f)) >> DOCA_SHIFT((_m)))
DOCA_U8_GET(m, f) == ShiftRight(m \cap f, DOCA_SHIFT(m))

\* ((DOCA_BETOH16((_m) & (_f)) >> DOCA_SHIFT(DOCA_BETOH16(_m))))
DOCA_BE16_GET(m, f) == ShiftRight(DOCA_BETOH16(m \cap f), DOCA_SHIFT(DOCA_BETOH16(m)))

\* ((DOCA_BETOH32((_m) & (_f)) >> DOCA_SHIFT(DOCA_BETOH32(_m))))
DOCA_BE32_GET(m, f) == ShiftRight(DOCA_BETOH32(m \cap f), DOCA_SHIFT(DOCA_BETOH32(m)))

\* _tmp = *_p; _tmp |= DOCA_U8_SET(_m, _v); *_p = _tmp; the result is the new *_p.
DOCA_U8P_SET(m, v, p) == p \cup DOCA_U8_SET(m, v)

DOCA_BE16P_SET(m, v, p) == p \cup DOCA_BE16_SET(m, v)

DOCA_BE32P_SET(m, v, p) == p \cup DOCA_BE32_SET(m, v)

GENMASK(f, h, l) ==
    CASE f = "U8" -> DOCA_U8_GENMASK(h, l)
      [] f = "BE16" -> DOCA_BE16_GENMASK(h, l)
      [] f = "BE32" -> DOCA_BE32_GENMASK(h, l)

SET(f, m, v) ==
    CASE f = "U8" -> DOCA_U8_SET(m, v)
      [] f = "BE16" -> DOCA_BE16_SET(m, v)
      [] f = "BE32" -> DOCA_BE32_SET(m, v)

GET(f, m, x) ==
    CASE f = "U8" -> DOCA_U8_GET(m, x)
      [] f = "BE16" -> DOCA_BE16_GET(m, x)
      [] f = "BE32" -> DOCA_BE32_GET(m, x)

P_SET_Assign(f, m, v, p) == (p \ m) \cup SET(f, m, v)

P_SET(f, m, v, p) ==
    CASE f = "U8" -> DOCA_U8P_SET(m, v, p)
      [] f = "BE16" -> DOCA_BE16P_SET(m, v, p)
      [] f = "BE32" -> DOCA_BE32P_SET(m, v, p)

\* The inputs: every field h..l of every family, on a host of either byte
\* order; values that fit the field, fill it, and are wider than it; contents
\* of the pointed field with bits set and clear inside and outside the field.
EvenBits(w) == {i \in AllOnes(w) : i % 2 = 0}

ValueInputs(w, n) ==
    {{}, {0}, AllOnes(n), EvenBits(n), Truncate(w, AllOnes(n + 1)), Truncate(w, {n}), AllOnes(w)}

FieldInputs(w) == {{}, AllOnes(w), EvenBits(w), AllOnes(w) \ EvenBits(w)}

RegInput(f, e, h, l, v, p) ==
    [macro |-> "input", family |-> f, endian |-> e, h |-> h, l |-> l, v |-> v, p |-> p,
     mask |-> {}, overflow |-> FALSE, set |-> {}, get |-> {}, field |-> p, sets |-> 0, once |-> p]

\* The application builds the mask of the field.
ApplyGenMask ==
    /\ reg.macro = "input"
    /\ reg' = [reg EXCEPT !.macro = "GENMASK",
                          !.mask = GENMASK(reg.family, reg.h, reg.l),
                          !.overflow = Overflows(Width(reg.family), reg.l)]
    /\ UNCHANGED <<rxq, rdmaVars, sem, queue>>

\* The application builds the field of value v.
ApplySet ==
    /\ reg.macro = "GENMASK"
    /\ reg' = [reg EXCEPT !.macro = "SET", !.set = SET(reg.family, reg.mask, reg.v)]
    /\ UNCHANGED <<rxq, rdmaVars, sem, queue>>

\* The application reads the field it built.
ApplyGet ==
    /\ reg.macro = "SET"
    /\ reg' = [reg EXCEPT !.macro = "GET", !.get = GET(reg.family, reg.mask, reg.set)]
    /\ UNCHANGED <<rxq, rdmaVars, sem, queue>>

\* The application sets value v in the pointed field, once or twice.
ApplyPSet ==
    /\ reg.macro \in {"GENMASK", "P_SET"}
    /\ reg.sets < 2
    /\ LET new == P_SET(reg.family, reg.mask, reg.v, reg.field)
       IN  reg' = [reg EXCEPT !.macro = "P_SET", !.field = new, !.sets = reg.sets + 1,
                              !.once = IF reg.sets = 0 THEN new ELSE reg.once]
    /\ UNCHANGED <<rxq, rdmaVars, sem, queue>>

InitBits ==
    /\ InitKernel
    /\ queue = NoQueue /\ rxq = NoRxq
    /\ \E f \in Families, e \in {"little", "big"} :
         \E h \in AllOnes(Width(f)) :
           \E l \in 0 .. h :
             \E v \in ValueInputs(Width(f), h - l + 1), p \in FieldInputs(Width(f)) :
               reg = RegInput(f, e, h, l, v, p)

NextBits == ApplyGenMask \/ ApplySet \/ ApplyGet \/ ApplyPSet

SpecBits == InitBits /\ [][NextBits]_vars

\* One running client with an established connection and MaxFetchAdd fetch and
\* add tasks, allocated for the same 8 bytes of the peer's memory with any
\* add_data; the tasks are submitted and executed in any order.
InitFetchAdd ==
    /\ kind = [s \in Sides |-> IF s = "client" THEN "send" ELSE "receive"]
    /\ ctx = [s \in Sides |-> "Running"]
    /\ props = [s \in Sides |-> [p \in PropNames |-> 0]]
    /\ numTasks = [s \in Sides |-> 0]
    /\ task = [s \in Sides |-> [t \in TaskIds |-> FreeTask]]
    /\ conn = [s \in Sides |-> [c \in {1} |-> EstablishedConn(s)]]
    /\ wire = [s \in Sides |-> [c \in {1} |-> <<>>]]
    /\ listening = [s \in Sides |-> FALSE]
    /\ inPoll = [s \in Sides |-> FALSE]
    /\ cb = [s \in Sides |-> NoCb]
    /\ lastCall = Call("client", "doca_pe_progress", "Running", DOCA_SUCCESS)
    /\ atomic = NoAtomic /\ sem = NoSem /\ queue = NoQueue /\ rxq = NoRxq /\ reg = NoReg
    /\ \E v \in DstInputs : \E a \in [FetchAddIds -> AddInputs] :
          fadd = [dst |-> v, first |-> v,
                  task |-> [i \in FetchAddIds |-> AllocatedFetchAdd(a[i])]]

NextFetchAdd ==
    \/ \E i \in FetchAddIds : doca_task_submit_atomic_fetch_add("client", i)
    \/ \E i \in FetchAddIds : FetchAddExecute("client", i)
    \/ \E i \in FetchAddIds : PollFetchAddCompletion("client", i)
    \/ pe_progress_call("client")
    \/ pe_progress_return("client")
    \/ CallbackReturn("client")

SpecFetchAdd == InitFetchAdd /\ [][NextFetchAdd]_vars

\* One running context whose application set max_num_connections before the
\* start, and every operation that asks for a new connection; the remote peer
\* answers, connections end and stop being used.
InitFull ==
    /\ kind = [s \in Sides |-> IF s = "client" THEN "send" ELSE "receive"]
    /\ ctx = [s \in Sides |-> "Running"]
    /\ \E m \in 1..MaxConn :
          props = [s \in Sides |-> [p \in PropNames |->
                      IF s = "client" /\ p = "max_num_connections" THEN m ELSE 0]]
    /\ numTasks = [s \in Sides |-> 0]
    /\ task = [s \in Sides |-> [t \in TaskIds |-> FreeTask]]
    /\ conn = [s \in Sides |-> [c \in 1..(MaxConn + 1) |-> NoConn]]
    /\ wire = [s \in Sides |-> [c \in 1..(MaxConn + 1) |-> <<>>]]
    /\ listening = [s \in Sides |-> FALSE]
    /\ inPoll = [s \in Sides |-> FALSE]
    /\ cb = [s \in Sides |-> NoCb]
    /\ lastCall = Call("client", "doca_pe_progress", "Running", DOCA_SUCCESS)
    /\ atomic = NoAtomic
    /\ fadd = NoFetchAdd /\ sem = NoSem /\ queue = NoQueue /\ rxq = NoRxq /\ reg = NoReg

NextFull ==
    \/ doca_rdma_export("client")
    \/ doca_rdma_bridge_prepare_connection("client")
    \/ \E ud \in {1} : doca_rdma_connect_to_addr("client", ud)
    \/ \E c \in ConnIds : doca_rdma_connection_disconnect("client", c)
    \/ pe_progress_call("client")
    \/ pe_progress_return("client")
    \/ CallbackReturn("client")
    \/ \E c \in ConnIds : PollConnectionAnswer("client", c)
    \/ \E c \in ConnIds : PollDisconnection("client", c)
    \/ \E c \in ConnIds : \E m \in {"accept", "reject"} : RemoteAnswer("client", c, m)
    \/ \E c \in ConnIds : RemoteHears("client", c)

SpecFull == InitFull /\ [][NextFull]_vars

\* One running sender with a pool of MaxTasks tasks and MaxConn established
\* connections, which keeps, changes and submits again the tasks its completion
\* callbacks hand back; connections may be disconnected.
InitResubmit ==
    /\ kind = [s \in Sides |-> IF s = "client" THEN "send" ELSE "receive"]
    /\ ctx = [s \in Sides |-> "Running"]
    /\ props = [s \in Sides |-> [p \in PropNames |-> 0]]
    /\ numTasks = [s \in Sides |-> IF s = "client" THEN MaxTasks ELSE 0]
    /\ task = [s \in Sides |-> [t \in TaskIds |-> FreeTask]]
    /\ conn = [s \in Sides |-> [c \in 1..MaxConn |-> EstablishedConn(s)]]
    /\ wire = [s \in Sides |-> [c \in 1..MaxConn |-> <<>>]]
    /\ listening = [s \in Sides |-> FALSE]
    /\ inPoll = [s \in Sides |-> FALSE]
    /\ cb = [s \in Sides |-> NoCb]
    /\ lastCall = Call("client", "doca_pe_progress", "Running", DOCA_SUCCESS)
    /\ atomic = NoAtomic
    /\ fadd = NoFetchAdd /\ sem = NoSem /\ queue = NoQueue /\ rxq = NoRxq /\ reg = NoReg

NextResubmit ==
    \/ \E c \in Handles("client") : doca_rdma_task_allocate_init("client", c, <<>>)
    \/ \E t \in TaskIds : \E b \in SeqsOfLen(Bytes, 1) :
          doca_rdma_task_send_set_src_buf("client", t, b)
    \/ \E t \in TaskIds : \E c \in Handles("client") :
          doca_rdma_task_send_set_rdma_connection("client", t, c)
    \/ \E t \in TaskIds : doca_task_submit("client", t)
    \/ \E t \in TaskIds : doca_task_free("client", t)
    \/ \E c \in ConnIds : doca_rdma_connection_disconnect("client", c)
    \/ pe_progress_call("client")
    \/ pe_progress_return("client")
    \/ CallbackReturn("client")
    \/ \E t \in TaskIds : PollTaskCompletion("client", t)
    \/ \E t \in TaskIds : TransportFail("client", t)
    \/ \E t \in TaskIds : RemoteServes("client", t)

SpecResubmit == InitResubmit /\ [][NextResubmit]_vars

\* A connecting client and a listening server, each through its whole life,
\* that may ask to connect or to listen in any lifecycle state; no task traffic.
NextGate ==
    \/ \E s \in Sides : doca_ctx_start(s)
    \/ \E s \in Sides : doca_ctx_stop(s)
    \/ \E s \in Sides : \E ud \in {1} : doca_rdma_connect_to_addr(s, ud)
    \/ \E s \in Sides : doca_rdma_start_listen_to_port(s)
    \/ \E s \in Sides : \E c \in ConnIds : doca_rdma_connection_accept(s, c)
    \/ \E s \in Sides : \E c \in ConnIds : doca_rdma_connection_reject(s, c)
    \/ \E s \in Sides : pe_progress_call(s)
    \/ \E s \in Sides : pe_progress_return(s)
    \/ \E s \in Sides : CallbackReturn(s)
    \/ \E s \in Sides : PollCtxRunning(s)
    \/ \E s \in Sides : PollCtxStopped(s)
    \/ \E s \in Sides : \E c \in ConnIds : PollConnectionRequest(s, c)
    \/ \E s \in Sides : \E c \in ConnIds : PollHandshake(s, c)
    \/ \E s \in Sides : \E c \in ConnIds : PollConnectionAnswer(s, c)
    \/ \E s \in Sides : \E c \in ConnIds : PollDisconnection(s, c)
    \/ \E s \in Sides : \E c \in ConnIds : PollConnectionAbort(s, c)
    \/ \E s \in Sides : \E c \in ConnIds : PollDropStale(s, c)

SpecGate == Init /\ [][NextGate]_vars

\* ------------------------------------------------------------------ claims
SetterOps == {"doca_rdma_set_" \o p : p \in PropNames}

SetConfOps == {"doca_rdma_task_" \o k \o "_set_conf" : k \in Kinds}

AllocateOps == {"doca_rdma_task_" \o k \o "_allocate_init" : k \in Kinds}

\* Tasks of side s that the caller or the engine holds.
Held(s) == {t \in TaskIds : task[s][t].st \in {"Allocated", "Submitted", "Completed"}}

\* C1: a property setter (send / recv queue size, MTU, transport type,
\* permissions, GID index, SL, max connection count) called on a context that
\* has reached Running returns DOCA_ERROR_BAD_STATE.
C1_SetterInRunningIsBadState ==
    (lastCall.op \in SetterOps /\ lastCall.pre = "Running")
        => lastCall.code = DOCA_ERROR_BAD_STATE

C1_Witness ==
    /\ lastCall.op = "doca_rdma_set_mtu"
    /\ lastCall.pre = "Running"
    /\ lastCall.code = DOCA_ERROR_BAD_STATE
    /\ props["client"]["send_queue_size"] = 4

\* C2: the set_conf call of a task kind succeeds exactly when the context is
\* Idle; in every other lifecycle state it returns DOCA_ERROR_BAD_STATE.
C2_SetConfOnlyInIdle ==
    lastCall.op \in SetConfOps =>
        IF lastCall.pre = "Idle"
        THEN lastCall.code = DOCA_SUCCESS
        ELSE lastCall.code = DOCA_ERROR_BAD_STATE

C2_Witness ==
    /\ lastCall.op \in SetConfOps
    /\ lastCall.pre = "Stopped"
    /\ lastCall.code = DOCA_ERROR_BAD_STATE
    /\ numTasks["client"] = 1

\* C3: doca_rdma_destroy() returns DOCA_ERROR_BAD_STATE in every state before
\* Stopped and the context still exists afterwards; once a stop-drain cycle has
\* brought the context to Stopped, destroy succeeds.
C3_DestroyOnlyWhenStopped ==
    lastCall.op = "doca_rdma_destroy" =>
        IF lastCall.pre = "Stopped"
        THEN lastCall.code = DOCA_SUCCESS /\ ctx[lastCall.side] = NoCtx
        ELSE lastCall.code = DOCA_ERROR_BAD_STATE /\ ctx[lastCall.side] = lastCall.pre

C3_Witness ==
    /\ lastCall.op = "doca_rdma_destroy"
    /\ lastCall.code = DOCA_SUCCESS
    /\ ctx["client"] = NoCtx
    /\ \E t \in TaskIds : task["client"][t].st = "Completed" /\ task["client"][t].err = 1
    /\ \E c \in ConnIds : conn["client"][c].st = "Disconnected"

\* C4: for a task kind that takes a connection, doca_task_submit() of a task
\* bound to a connection that is not Established (in negotiation, failed,
\* being disconnected or disconnected) returns DOCA_ERROR_BAD_STATE and the
\* task is not submitted.
C4_SubmitOnUnestablishedIsBadState ==
    (lastCall.op = "doca_task_submit" /\ lastCall.cst \notin {"-", "Established"})
        => /\ lastCall.code = DOCA_ERROR_BAD_STATE
           /\ task[lastCall.side][lastCall.id].st # "Submitted"

C4_Witness ==
    /\ lastCall.op = "doca_task_submit"
    /\ lastCall.pre = "Running"
    /\ lastCall.cst = "Disconnected"
    /\ lastCall.code = DOCA_ERROR_BAD_STATE

\* C5: at most num_tasks tasks of a kind are allocated at any time, and an
\* allocate call returns DOCA_ERROR_NO_MEMORY only with all num_tasks tasks
\* outstanding (it allocates nothing: the pool does not grow).
C5_PoolIsBounded ==
    \A s \in Sides :
        /\ Cardinality(Allocated(s)) <= numTasks[s]
        /\ (lastCall.side = s /\ lastCall.op \in AllocateOps) =>
              IF lastCall.code = DOCA_ERROR_NO_MEMORY
              THEN Cardinality(Allocated(s)) = numTasks[s]
              ELSE lastCall.code = DOCA_SUCCESS /\ Allocated(s) # {}

C5_Witness ==
    /\ lastCall.op \in AllocateOps
    /\ lastCall.code = DOCA_ERROR_NO_MEMORY
    /\ numTasks["client"] = 1
    /\ Cardinality(Allocated("client")) = 1

\* C6: a freed task is back in the pool: every one of the num_tasks slots that
\* neither the caller nor the engine holds can be allocated again, so that N
\* frees after N allocations make N further allocations succeed.
C6_FreeReturnsSlot ==
    \A s \in Sides :
        /\ PoolSlots(s) = (1..numTasks[s]) \ Held(s)
        /\ (lastCall.side = s /\ lastCall.op = "doca_task_free")
              => lastCall.id \in PoolSlots(s)

C6_Witness ==
    /\ lastCall.op = "doca_task_free"
    /\ lastCall.pre = "Running"
    /\ numTasks["client"] = MaxTasks
    /\ PoolSlots("client") = 1..MaxTasks

HandshakeStates == {"Requested", "Established", "Rejected", "Failed", "Disconnected"}

\* A callback of side s is invoked in this step.
CallbackInvoked(s) == cb'[s] # NoCb /\ cb'[s] # cb[s]

\* The handshake of a connection of side s advances in this step.
HandshakeAdvances(s) ==
    \E c \in ConnIds :
        \/ conn'[s][c].st # conn[s][c].st /\ conn'[s][c].st \in HandshakeStates
        \/ conn'[s][c].req # conn[s][c].req
        \/ conn'[s][c].est # conn[s][c].est
        \/ conn'[s][c].fail # conn[s][c].fail
        \/ conn'[s][c].disc # conn[s][c].disc

\* A completion of a task of side s is dispatched in this step.
CompletionDispatched(s) ==
    \E t \in TaskIds :
        \/ task'[s][t].st = "Completed" /\ task[s][t].st # "Completed"
        \/ task'[s][t].ok > task[s][t].ok
        \/ task'[s][t].err > task[s][t].err

\* C8: connection-state and task-completion callbacks are invoked only by a
\* doca_pe_progress() call that is executing on their context, the handshake
\* state of a connection advances and completions are dispatched nowhere else,
\* and the poll call does not return while a callback is running.
C8_CallbacksOnlyInsidePoll ==
    [][\A s \in Sides :
          /\ (CallbackInvoked(s) \/ HandshakeAdvances(s) \/ CompletionDispatched(s))
                => (EngineRuns(s) /\ inPoll'[s])
          /\ (inPoll[s] /\ ~inPoll'[s]) => (cb[s] = NoCb /\ cb'[s] = NoCb)
          /\ (cb[s] # NoCb => inPoll[s])]_vars

C8_Witness ==
    /\ cb["server"].kind = "task_ok" /\ inPoll["server"]
    /\ cb["client"].kind = "disconnection" /\ inPoll["client"]
    /\ \E c \in ConnIds : conn["server"][c].req = 1 /\ conn["server"][c].est = 1

\* C10: accept and reject are applied deferred.  When the call returns the
\* connection is not Established and no Established callback was delivered for
\* it; the server's decision is still pending in the poll pass in which it was
\* taken; and the client's Established callback comes after the server's
\* request callback and the completion of its accept.
C10_AcceptIsDeferred ==
    /\ lastCall.op \in {"doca_rdma_connection_accept", "doca_rdma_connection_reject"}
          => LET k == conn[lastCall.side][lastCall.id] IN
             /\ k.st \in {"Accepted", "Rejecting"}
             /\ k.est = 0
             /\ conn[Peer(lastCall.side)][lastCall.id].est = 0
    /\ \A s \in Sides : \A c \in ConnIds :
          conn[s][c].fresh => (conn[s][c].st \in {"Accepted", "Rejecting"} /\ conn[s][c].est = 0)
    /\ \A c \in ConnIds :
          conn["client"][c].est > 0 => (conn["server"][c].req = 1 /\ conn["server"][c].est = 1)

C10_Witness ==
    /\ lastCall.op = "doca_rdma_connection_accept"
    /\ cb["server"].kind = "request"
    /\ conn["server"][cb["server"].id].st = "Accepted"
    /\ conn["server"][cb["server"].id].fresh
    /\ conn["client"][cb["server"].id].st = "Connecting"

\* C11: once the server has accepted the request of a connect-to-address (the
\* client connected to the listening server and the server called accept), and
\* both sides keep polling, both sides get the Established callback for that
\* connection.
C11_AcceptedLeadsToEstablished ==
    (conn["server"][1].st = "Accepted")
        ~> (conn["client"][1].est = 1 /\ conn["server"][1].est = 1)

C11_Witness ==
    /\ conn["client"][1].est = 1 /\ conn["server"][1].est = 1
    /\ conn["client"][1].st = "Established" /\ conn["server"][1].st = "Established"
    /\ cb["client"].kind = "established"
    /\ listening["server"]

\* The connection callbacks that carry connection user data.
UserDataCallbacks == {"established", "failure", "disconnection"}

\* The calls that attach user data to a connection.
AttachOps == {"doca_rdma_connect_to_addr", "doca_rdma_connection_set_user_data"}

\* C12: the user data handed to an Established, Failure or Disconnection
\* callback is the user data of the connection the callback is about, and the
\* user data of a connection changes only when the application attaches one (at
\* connect-to-address, or with the setter, for that connection).
C12_CallbackCarriesOwnUserData ==
    [][\A s \in Sides :
          /\ (CallbackInvoked(s) /\ cb'[s].kind \in UserDataCallbacks)
                => cb'[s].ud = conn[s][cb'[s].id].ud
          /\ \A c \in ConnIds :
                conn'[s][c].ud # conn[s][c].ud
                    => /\ lastCall'.side = s /\ lastCall'.op \in AttachOps
                       /\ lastCall'.op = "doca_rdma_connection_set_user_data"
                             => lastCall'.id = c]_vars

C12_Witness ==
    /\ lastCall.op = "doca_rdma_connection_set_user_data" /\ lastCall.id = 2
    /\ cb["client"].kind = "failure" /\ cb["client"].id = 2
    /\ cb["client"].ud = conn["client"][2].ud
    /\ conn["client"][1].st = "Established"
    /\ conn["client"][1].ud # cb["client"].ud

\* C14: after a disconnect call on an established connection, by either side,
\* with both sides polling, the disconnection callback of each side is invoked
\* for the connection, and it is never invoked a second time.
C14_DisconnectLeadsToOneCallbackPerSide ==
    /\ [](\A s \in Sides : conn[s][1].disc <= 1)
    /\ \A s \in Sides :
          (conn[s][1].st = "Disconnecting")
              ~> (conn["client"][1].disc = 1 /\ conn["server"][1].disc = 1)

C14_Witness ==
    /\ lastCall.op = "doca_rdma_connection_disconnect" /\ lastCall.side = "server"
    /\ conn["client"][1].disc = 1 /\ conn["server"][1].disc = 1
    /\ conn["client"][1].st = "Disconnected" /\ conn["server"][1].st = "Disconnected"

\* C13: a send on an established connection that completes a receive posted by
\* the peer leaves the payload of the send in the destination buffer of the
\* receive and the length of the payload as its result length, and that is
\* what the receive completion reports.
C13_ReceiveGetsThePayload ==
    [][\A r \in TaskIds :
          LET k == task["server"][r] IN
          /\ (k.hw = "none" /\ task'["server"][r].hw = "ok")
                => \E t \in TaskIds :
                      /\ task["client"][t].st = "Submitted"
                      /\ task["client"][t].hw = "none" /\ task'["client"][t].hw = "ok"
                      /\ conn["client"][task["client"][t].c].st = "Established"
                      /\ task'["server"][r].len = Len(task["client"][t].buf)
                      /\ task'["server"][r].buf = task["client"][t].buf
          /\ (k.hw = "ok" /\ task'["server"][r].st = "Completed")
                => /\ task'["server"][r].len = k.len
                   /\ task'["server"][r].buf = k.buf
                   /\ task'["server"][r].ok = 1]_vars

C13_Witness ==
    /\ cb["server"].kind = "task_ok"
    /\ task["server"][cb["server"].id].st = "Completed"
    /\ task["server"][cb["server"].id].len = 1
    /\ task["server"][cb["server"].id].buf = <<2>>
    /\ task["server"][cb["server"].id].cap = 2

\* C15: while the context is Stopped no task is submitted (owned by the
\* engine): the tasks that were outstanding at the stop have completed, with
\* their callback, before Stopped was reached.
C15_StoppedHasNoSubmittedTask ==
    \A s \in Sides :
        ctx[s] = "Stopped" =>
            \A t \in TaskIds :
                /\ task[s][t].st # "Submitted"
                /\ task[s][t].st = "Completed" => task[s][t].ok + task[s][t].err = 1

C15_Witness ==
    /\ ctx["client"] = "Stopped"
    /\ lastCall.op = "doca_task_submit" /\ lastCall.pre = "Stopped"
    /\ lastCall.code = DOCA_ERROR_BAD_STATE
    /\ \A t \in TaskIds : task["client"][t].st = "Completed" /\ task["client"][t].err = 1

\* A submitted task of side s is touched in this step.
SubmittedTaskTouched(s, t) == task[s][t].st = "Submitted" /\ task'[s][t] # task[s][t]

LifecycleSteps ==
    {<<"Idle", "Starting">>, <<"Starting", "Running">>, <<"Running", "Stopping">>,
     <<"Stopping", "Stopped">>, <<"Stopped", "Starting">>, <<"Stopped", NoCtx>>}

\* C17: the lifecycle state of a context changes only from a state to the next
\* one in Idle, Starting, Running, Stopping, Stopped; a running context leaves
\* Running only by doca_ctx_stop(), never goes back to Idle by itself, and a
\* stopped context starts again only by doca_ctx_start(); the connections of a
\* context are over when it is Stopped and stay over after the restart.
C17_LifecycleInOrder ==
    [][\A s \in Sides :
          /\ ctx'[s] # ctx[s] =>
                /\ <<ctx[s], ctx'[s]>> \in LifecycleSteps
                /\ ctx[s] = "Running" =>
                      (lastCall'.op = "doca_ctx_stop" /\ lastCall'.code = DOCA_SUCCESS)
                /\ ctx[s] = "Stopped" =>
                      (lastCall'.op \in {"doca_ctx_start", "doca_rdma_destroy"}
                       /\ lastCall'.code = DOCA_SUCCESS)
          /\ ctx'[s] = "Stopped" => \A c \in ConnIds : conn'[s][c].st \in ConnTerminal
          /\ \A c \in ConnIds :
                conn[s][c].st \in ConnTerminal \ {"None"} => conn'[s][c].st = conn[s][c].st]_vars

C17_Witness ==
    /\ ctx["client"] = "Running"
    /\ lastCall.op = "doca_pe_progress" /\ lastCall.pre = "Starting"
    /\ conn["client"][1].st = "Disconnected" /\ conn["client"][1].disc = 1
    /\ \E t \in TaskIds : task["client"][t].st = "Completed" /\ task["client"][t].err = 1

\* A task of side s is taken from the pool or submitted in this step.
TaskTakenOrSubmitted(s) ==
    \E t \in TaskIds :
        /\ task'[s][t].st # task[s][t].st
        /\ task'[s][t].st \in {"Allocated", "Submitted"}

QueueSizes == {"send_queue_size", "recv_queue_size"}

PowersOfTwo == {1, 2, 4, 8}

\* The least power of two that is not below v.
RoundedUp(v) == CHOOSE n \in PowersOfTwo : n >= v /\ \A m \in PowersOfTwo : m >= v => n <= m

C20_CompareAndSwapSemantics ==
    [][/\ (atomic.hw = "none" /\ atomic'.hw = "ok")
            => /\ atomic.st = "Submitted"
               /\ atomic'.result = atomic.dst
               /\ atomic.dst = atomic.cmp => atomic'.dst = atomic.swap
               /\ atomic.dst # atomic.cmp => atomic'.dst = atomic.dst
       /\ (atomic'.dst # atomic.dst \/ atomic'.result # atomic.result)
            => (atomic.st = "Submitted" /\ atomic.hw = "none" /\ atomic'.hw = "ok")]_vars

\* The success callback of a task whose comparison succeeded: result_buf holds
\* the value compared against and the remote location the swap value, which
\* differs from it in its high word only.
C20_Witness ==
    /\ cb["client"].kind = "atomic_ok"
    /\ atomic.st = "Completed"
    /\ atomic.cmp = <<0, 1>> /\ atomic.swap = <<1, 1>>
    /\ atomic.result = <<0, 1>> /\ atomic.dst = <<1, 1>>

NewConnectionOps ==
    {"doca_rdma_export", "doca_rdma_bridge_prepare_connection", "doca_rdma_connect_to_addr"}

ConnectionsInUse(s) ==
    Cardinality({c \in ConnIds : conn[s][c].st \notin {"None", "Failed", "Rejected", "Disconnected"}})

ConnectionCallbacks == {"request", "established", "failure", "disconnection"}

\* C26: a connect-to-address or start-listen call made while the context is
\* Running succeeds; made in any other lifecycle state it returns
\* DOCA_ERROR_BAD_STATE and changes neither the connections, nor what travels
\* to the peer, nor the listening state. Nothing results from a refused call
\* later: a connection comes into being on the initiator only in a successful
\* connect call, a request reaches the peer only from such a call, a context
\* listens only after a successful listen call, and a connection callback is
\* only ever about a connection that came into being.
C26_ConnectAndListenOnlyInRunning ==
    [][/\ \A s \in Sides :
            (lastCall' # lastCall /\ lastCall'.side = s
               /\ lastCall'.op \in {"doca_rdma_connect_to_addr", "doca_rdma_start_listen_to_port"})
               => IF ctx[s] = "Running"
                  THEN lastCall'.code = DOCA_SUCCESS
                  ELSE /\ lastCall'.code = DOCA_ERROR_BAD_STATE
                       /\ conn' = conn /\ wire' = wire /\ listening' = listening /\ cb' = cb
       /\ \A c \in ConnIds :
            /\ (conn["client"][c].st = "None" /\ conn'["client"][c].st # "None")
                  => /\ lastCall' # lastCall
                     /\ lastCall' = Call("client", "doca_rdma_connect_to_addr", "Running",
                                         DOCA_SUCCESS)
            /\ (Len(wire'["server"][c]) > Len(wire["server"][c])
                   /\ wire'["server"][c][Len(wire'["server"][c])] = "request")
                  => /\ lastCall' # lastCall
                     /\ lastCall' = Call("client", "doca_rdma_connect_to_addr", "Running",
                                         DOCA_SUCCESS)
            /\ (conn["server"][c].st = "None" /\ conn'["server"][c].st # "None")
                  => listening["server"]
       /\ \A s \in Sides :
            /\ (~listening[s] /\ listening'[s])
                  => /\ lastCall' # lastCall
                     /\ lastCall' = Call(s, "doca_rdma_start_listen_to_port", "Running",
                                         DOCA_SUCCESS)
            /\ (cb'[s].kind \in ConnectionCallbacks)
                  => conn'[s][cb'[s].id].st # "None"]_vars

\* The server was refused a listen after its context was stopped, while the
\* client is still starting, and no connection exists on either side.
C26_Witness ==
    /\ lastCall = Call("server", "doca_rdma_start_listen_to_port", "Stopped",
                       DOCA_ERROR_BAD_STATE)
    /\ ctx["client"] = "Starting"
    /\ \A s \in Sides : \A c \in ConnIds : conn[s][c].st = "None"

TaskSetterOps == {"doca_rdma_task_send_set_src_buf", "doca_rdma_task_send_set_rdma_connection"}

\* C27: a task that its completion callback handed back to the caller can be
\* passed to doca_task_submit() as it is, with no allocation in between: if the
\* context is Running and the connection of the task Established the call
\* succeeds, the task is submitted with the buffer and connection it had, and
\* the set of tasks taken from the pool is the same as before; otherwise the
\* call returns DOCA_ERROR_BAD_STATE and changes nothing. A setter called on
\* the completed task changes the buffer or the connection and leaves the task
\* completed and the pool as it was.
C27_CompletedTaskResubmits ==
    [][\A t \in TaskIds :
          /\ (task["client"][t].st = "Completed" /\ lastCall' # lastCall
                 /\ lastCall'.op = "doca_task_submit" /\ lastCall'.id = t)
                => IF ctx["client"] = "Running"
                      /\ conn["client"][task["client"][t].c].st = "Established"
                   THEN /\ lastCall'.code = DOCA_SUCCESS
                        /\ task'["client"][t].st = "Submitted"
                        /\ task'["client"][t].buf = task["client"][t].buf
                        /\ task'["client"][t].c = task["client"][t].c
                        /\ Allocated("client")' = Allocated("client")
                        /\ \A u \in TaskIds \ {t} : task'["client"][u] = task["client"][u]
                   ELSE /\ lastCall'.code = DOCA_ERROR_BAD_STATE
                        /\ task' = task
          /\ (task["client"][t].st = "Completed" /\ lastCall' # lastCall
                 /\ lastCall'.op \in TaskSetterOps /\ lastCall'.id = t)
                => /\ task'["client"][t].st = "Completed"
                   /\ Allocated("client")' = Allocated("client")]_vars

\* Inside the completion callback of task 1 the application moved the task to
\* connection 2, gave it another buffer and submitted it again, while the other
\* slot of the pool is still free.
C27_Witness ==
    /\ cb["client"].kind = "task_ok" /\ cb["client"].id = 1
    /\ lastCall.op = "doca_task_submit" /\ lastCall.id = 1
    /\ lastCall.code = DOCA_SUCCESS
    /\ task["client"][1].st = "Submitted"
    /\ task["client"][1].c = 2 /\ task["client"][1].buf = <<2>>
    /\ task["client"][2].st = "Pooled"
    /\ conn["client"][1].st = "Disconnecting"

\* The sum, modulo 2^64, of the add_data of the fetch and add tasks in S.
RECURSIVE SumOfAdds(_)
SumOfAdds(S) ==
    IF S = {} THEN Zero64
    ELSE LET i == CHOOSE x \in S : TRUE
         IN Add64(fadd.task[i].add, SumOfAdds(S \ {i}))

\* The tasks executed from task i on and before task j.
Between(i, j) == {k \in Executed : fadd.task[i].ord <= fadd.task[k].ord
                                     /\ fadd.task[k].ord < fadd.task[j].ord}

\* The fetch and add semantics and its atomicity, common to the statement of
\* C29 and to its amended form: the step that executes a task writes the
\* value the remote location held to result_buf and leaves the location
\* holding that value plus add_data modulo 2^64; no other step changes the
\* location.
FetchAddIsAtomic ==
    /\ \A i \in FetchAddIds :
          (fadd.task[i].hw = "none" /\ fadd'.task[i].hw = "ok")
             => /\ fadd'.task[i].result = fadd.dst
                /\ fadd'.dst = Add64(fadd.dst, fadd.task[i].add)
    /\ fadd'.dst # fadd.dst
          => \E i \in FetchAddIds : fadd.task[i].hw = "none" /\ fadd'.task[i].hw = "ok"

\* No update is lost: the location holds its first value plus the add_data of
\* every executed task.
NoUpdateLost == fadd.dst = Add64(fadd.first, SumOfAdds(Executed))

\* C29 (as amended): fetch and add is atomic and loses no update; a task
\* observes the value an earlier task observed plus the add_data of the tasks
\* executed from that one on and before it, so that two tasks executed one
\* right after the other observe distinct values when the add_data of the
\* first is non-zero, and two tasks further apart observe the same value
\* exactly when the add_data in between sum to zero modulo 2^64.
C29_FetchAddLosesNoUpdate ==
    /\ [][FetchAddIsAtomic]_vars
    /\ [](/\ NoUpdateLost
          /\ \A i, j \in Executed :
                fadd.task[i].ord < fadd.task[j].ord
                   => /\ fadd.task[j].result =
                           Add64(fadd.task[i].result, SumOfAdds(Between(i, j)))
                      /\ (fadd.task[j].ord = fadd.task[i].ord + 1
                             /\ fadd.task[i].add # Zero64)
                           => fadd.task[j].result # fadd.task[i].result)

\* Three tasks were executed on a location that held the largest 8-byte value:
\* the first added one and wrapped it to zero, and the third observed a value
\* that differs from what the two before it observed.
C29_Witness ==
    /\ fadd.first = Max64
    /\ \E i, j, k \in Executed :
          /\ fadd.task[i].ord = 1 /\ fadd.task[j].ord = 2 /\ fadd.task[k].ord = 3
          /\ fadd.task[i].add = One64 /\ fadd.task[j].add = One64
          /\ fadd.task[i].result = Max64 /\ fadd.task[j].result = Zero64
          /\ fadd.task[k].result = One64
          /\ fadd.task[k].st = "Completed"

\* C29 as the specification states it: fetch and add is atomic and loses no
\* update, and any two tasks with non-zero add_data observe distinct values.
C29_EveryTaskObservesDistinctValue ==
    /\ [][FetchAddIsAtomic]_vars
    /\ [](/\ NoUpdateLost
          /\ \A i, j \in Executed :
                (i # j /\ fadd.task[i].add # Zero64 /\ fadd.task[j].add # Zero64)
                   => fadd.task[i].result # fadd.task[j].result)

\* The compare-and-set semantics, common to the statement of C28 and to its
\* amended form: the step in which a call acts on the item sets the status to
\* status_val and returns DOCA_SUCCESS when the status equals status_compare,
\* and otherwise leaves the status and returns DOCA_ERROR_NOT_PERMITTED; no
\* other step changes the status.
CasIsCompareAndSet ==
    /\ \A th \in SemThreads :
          (sem.thread[th].pc = "called" /\ sem'.thread[th].pc = "returned")
             => IF sem.status = sem.thread[th].cmp
                THEN sem'.status = sem.thread[th].val
                     /\ sem'.thread[th].ret = DOCA_SUCCESS
                ELSE sem'.status = sem.status
                     /\ sem'.thread[th].ret = DOCA_ERROR_NOT_PERMITTED
    /\ sem'.status # sem.status
          => \E th \in SemThreads :
                sem.thread[th].pc = "called" /\ sem'.thread[th].pc = "returned"

\* Two distinct threads whose calls, with the same status_compare and with
\* status_val different from it, have both returned.
SameCompareReturned(t1, t2) ==
    /\ t1 # t2
    /\ sem.thread[t1].pc = "returned" /\ sem.thread[t2].pc = "returned"
    /\ sem.thread[t1].cmp = sem.thread[t2].cmp
    /\ sem.thread[t1].val # sem.thread[t1].cmp
    /\ sem.thread[t2].val # sem.thread[t2].cmp

\* The threads among t1 and t2 whose call returned DOCA_SUCCESS.
Succeeded(t1, t2) == {th \in {t1, t2} : sem.thread[th].ret = DOCA_SUCCESS}

\* C28 (as amended): set_status_cas is an atomic compare-and-set; of two
\* threads that call it on the same item with the same status_compare
\* (different from status_val), while no other call acts on the item, at most
\* one succeeds: exactly one when the item held status_compare, and none when
\* it held another status.
C28_AtMostOneCasSucceeds ==
    /\ [][CasIsCompareAndSet]_vars
    /\ [](\A t1, t2 \in SemThreads :
            (/\ SameCompareReturned(t1, t2)
             /\ \A th \in SemThreads \ {t1, t2} : sem.thread[th].pc # "returned")
               => Cardinality(Succeeded(t1, t2)) =
                     IF sem.first = sem.thread[t1].cmp THEN 1 ELSE 0)

\* Two threads called with the same status_compare, the status the item held,
\* while both calls were in progress: one succeeded and the item holds its
\* status_val, the other was refused.
C28_Witness ==
    /\ SameCompareReturned(1, 2)
    /\ sem.first = sem.thread[1].cmp
    /\ sem.thread[1].ret = DOCA_ERROR_NOT_PERMITTED
    /\ sem.thread[2].ret = DOCA_SUCCESS
    /\ sem.status = sem.thread[2].val

\* C28 as the specification states it: of two threads that call with the same
\* status_compare (different from status_val), exactly one succeeds.
C28_ExactlyOneCasSucceeds ==
    /\ [][CasIsCompareAndSet]_vars
    /\ [](\A t1, t2 \in SemThreads :
            (/\ SameCompareReturned(t1, t2)
             /\ \A th \in SemThreads \ {t1, t2} : sem.thread[th].pc # "returned")
               => Cardinality(Succeeded(t1, t2)) = 1)

\* The kernel kept to the weak discipline and committed once, with count 3.
CommittedThree == ~queue.undefined /\ queue.commits = <<3>>

\* The operations enqueued at positions 0, 1 and 2, in position order.
FirstThree == <<queue.slot[0], queue.slot[1], queue.slot[2]>>

\* C21: under the weak discipline, after operations were enqueued at the
\* positions 0, 1, 2 that follow the curr_position of get_info and one commit
\* with count 3, the completions are those of the three operations in position
\* order, none skipped and none added, and all three eventually arrive.
C21_WeakCommitCompletesInPositionOrder ==
    /\ [](CommittedThree
            => /\ Len(queue.done) <= 3
               /\ \A k \in 1..Len(queue.done) : queue.done[k] = FirstThree[k])
    /\ (CommittedThree ~> (queue.undefined \/ Len(queue.done) >= 3))

\* get_info returned curr_position 0, the threads enqueued at 0, 1, 2 in
\* another order than the positions, one commit of 3 followed, and the three
\* completions arrived in position order.
C21_Witness ==
    /\ CommittedThree
    /\ queue.info = 0
    /\ queue.calls = <<3, 1, 2>>
    /\ FirstThree = <<1, 2, 3>>
    /\ queue.done = <<1, 2, 3>>
    /\ queue.curr = 3

\* C22: under the strong discipline the descriptors are assigned in the order
\* of the enqueue calls (the operation of the k-th call sits at position
\* k - 1), and the transport executes the operations in that order.
C22_StrongExecutesInSubmissionOrder ==
    queue.mode = "strong"
       => /\ queue.next = Len(queue.calls)
          /\ \A k \in 1..Len(queue.calls) : queue.slot[k - 1] = queue.calls[k]
          /\ Len(queue.done) <= Len(queue.calls)
          /\ \A k \in 1..Len(queue.done) : queue.done[k] = queue.calls[k]

\* The threads of an Ethernet send queue called the strong enqueue in the
\* order 2, 3, 1; all was committed and flushed, and executed in that order.
C22_Witness ==
    /\ queue.type = "eth" /\ queue.mode = "strong"
    /\ queue.calls = <<2, 3, 1>>
    /\ queue.commits = <<2, 1>>
    /\ queue.done = <<2, 3, 1>>

\* The position of an operation in the ring (each operation is enqueued once).
PositionOf(op) == CHOOSE p \in Positions : queue.slot[p] = op

\* C23: as long as the kernel keeps to the rules, every operation the
\* transport has executed or completed sits before a commit point, and on an
\* Ethernet send queue before the commit point the last push flushed; the
\* transport takes an operation only after such a commit (and push), never at
\* the enqueue.
C23_NothingVisibleBeforeCommit ==
    /\ [](~queue.undefined
            => /\ \A k \in 1..Len(queue.done) :
                     /\ PositionOf(queue.done[k]) < queue.curr
                     /\ queue.type = "eth" => PositionOf(queue.done[k]) < queue.pushed
               /\ queue.pushed <= queue.curr
               /\ queue.done # <<>> => queue.commits # <<>>)
    /\ [][(~queue'.undefined /\ queue'.done # queue.done)
            => /\ Len(queue.done) < queue.curr
               /\ queue.type = "eth" => Len(queue.done) < queue.pushed
               /\ queue'.calls = queue.calls /\ queue'.curr = queue.curr
               /\ queue'.pushed = queue.pushed]_vars

\* An Ethernet send queue with three packets enqueued: the first was committed
\* and flushed and has been sent, the second is committed but not flushed, the
\* third is not committed; neither of the two has been sent.
C23_Witness ==
    /\ queue.type = "eth" /\ ~queue.undefined
    /\ Len(queue.calls) = 3
    /\ queue.commits = <<1, 1>>
    /\ queue.pushed = 1 /\ queue.curr = 2
    /\ Len(queue.done) = 1

\* The step in which the wait function returns.
WaitReturns == queue.wait.st = "waiting" /\ queue'.wait.st = "returned"

\* C30: a wait function called in non-blocking mode can always return, whatever
\* has completed, and does return; the count it reports exceeds neither the
\* number awaited nor the number of operations posted nor what completed; in
\* blocking mode it returns only when all the awaited operations have
\* completed, and reports them all.
C30_WaitModes ==
    /\ []((queue.wait.st = "waiting" /\ queue.wait.mode = DOCA_GPU_WAIT_FLAG_NB)
            => ENABLED WaitReturn)
    /\ ((queue.wait.st = "waiting" /\ queue.wait.mode = DOCA_GPU_WAIT_FLAG_NB)
            ~> queue.wait.st = "returned")
    /\ [][WaitReturns
            => /\ queue'.wait.got <= queue.wait.n
               /\ queue'.wait.got <= Len(queue.calls)
               /\ queue'.wait.got <= Unreported(queue)
               /\ queue.wait.mode = DOCA_GPU_WAIT_FLAG_B
                     => /\ Unreported(queue) >= queue.wait.n
                        /\ queue'.wait.got = queue.wait.n]_vars

\* A non-blocking wait on a queue with two operations posted and committed
\* returned with nothing completed, reporting 0.
C30_Witness ==
    /\ queue.wait.st = "returned"
    /\ queue.wait.mode = DOCA_GPU_WAIT_FLAG_NB
    /\ queue.wait.got = 0
    /\ queue.curr = 2
    /\ queue.done = <<>>

IsPowerOfTwo(x) == \E k \in 0..x : x = 2 ^ k

\* C31: a successful doca_rdma_set_send_queue_size(n) makes the context store
\* a power of two that is not below n (and below 2n: the next one), nothing
\* else changes the stored size, and doca_rdma_get_send_queue_size() returns
\* the stored size; so the getter returns n rounded up to a power of two,
\* never less than the size set.
C31_SendQueueSizeRoundedUp ==
    [][/\ (lastCall' # lastCall /\ lastCall'.op = "doca_rdma_set_send_queue_size"
              /\ lastCall'.code = DOCA_SUCCESS)
            => LET size == props'[lastCall'.side]["send_queue_size"] IN
               /\ IsPowerOfTwo(size)
               /\ size >= lastCall'.val
               /\ size < 2 * lastCall'.val
       /\ \A s \in Sides :
             props'[s]["send_queue_size"] # props[s]["send_queue_size"]
                => /\ lastCall' # lastCall
                   /\ lastCall'.side = s
                   /\ lastCall'.op = "doca_rdma_set_send_queue_size"
                   /\ lastCall'.code = DOCA_SUCCESS
       /\ (lastCall' # lastCall /\ lastCall'.op = "doca_rdma_get_send_queue_size")
            => /\ lastCall'.code = DOCA_SUCCESS
               /\ lastCall'.val = props[lastCall'.side]["send_queue_size"]
               /\ lastCall'.val = 0 \/ IsPowerOfTwo(lastCall'.val)]_vars

\* The client, whose send queue size was set (to 3, the one size that rounds
\* to 4), reads 4 back while it is still Idle.
C31_Witness ==
    /\ lastCall.side = "client"
    /\ lastCall.op = "doca_rdma_get_send_queue_size"
    /\ lastCall.pre = "Idle"
    /\ lastCall.code = DOCA_SUCCESS
    /\ lastCall.val = 4
    /\ props["client"]["send_queue_size"] = 4

\* The step is a call of doca_rdma_stop_listen_to_port().
StopListenCalled ==
    lastCall' # lastCall /\ lastCall'.op = "doca_rdma_stop_listen_to_port"

\* C32: doca_rdma_stop_listen_to_port() succeeds and ends the listening, and
\* leaves every connection of both sides, the messages in flight and the
\* pending callback as they are: an Established connection stays Established;
\* from then on no connection request callback runs until the server listens
\* again; and a Disconnection callback only ever follows a disconnect one of
\* the sides called, never the end of the listening.
C32_StopListenKeepsConnections ==
    [][/\ StopListenCalled
            => /\ lastCall'.code = DOCA_SUCCESS
               /\ ~listening'[lastCall'.side]
               /\ conn' = conn /\ wire' = wire /\ cb' = cb
       /\ \A s \in Sides :
             /\ (cb'[s] # cb[s] /\ cb'[s].kind = "request") => listening[s]
             /\ \A c \in ConnIds :
                   conn'[s][c].disc # conn[s][c].disc
                      => \/ conn[s][c].st = "Disconnecting"
                         \/ HeadIs(wire[s][c], "disconnect")]_vars

\* The server stopped listening while connection 1 was Established on both
\* sides and the request for connection 2 was on its way: connection 1 is
\* still Established, the request stays undelivered.
C32_Witness ==
    /\ lastCall.op = "doca_rdma_stop_listen_to_port"
    /\ ~listening["server"]
    /\ conn["server"][1].st = "Established" /\ conn["client"][1].st = "Established"
    /\ conn["server"][1].disc = 0
    /\ conn["server"][2].st = "None"
    /\ wire["server"][2] = <<"request">>

\* The step in which the receive call returns.
ReceiveReturns == rxq.st = "receiving" /\ rxq'.st = "returned"

\* C33: doca_gpu_dev_eth_rxq_receive_block() returns only when max_rx_pkts
\* (if not 0) packets were received or timeout_ns (if not 0) has elapsed, and
\* once either is the case it receives and waits no more; it reports the
\* packets it received, never more than a non-zero max_rx_pkts; with both 0 it
\* never returns; and with a non-zero timeout_ns, or once max_rx_pkts packets
\* were received, it does return.
C33_ReceiveBlockExit ==
    /\ [][/\ ReceiveReturns
               => /\ \/ rxq.max # 0 /\ rxq.got = rxq.max
                     \/ rxq.timeout # 0 /\ rxq.elapsed = rxq.timeout
                  /\ rxq'.num_rx_pkts = rxq.got
                  /\ (rxq.max # 0 => rxq'.num_rx_pkts <= rxq.max)
          /\ (rxq.st = "receiving" /\ rxq.max = 0 /\ rxq.timeout = 0)
               => rxq'.st = "receiving"
          /\ (rxq.st = "receiving"
                /\ \/ rxq.max # 0 /\ rxq.got >= rxq.max
                   \/ rxq.timeout # 0 /\ rxq.elapsed >= rxq.timeout)
               => rxq'.got = rxq.got /\ rxq'.elapsed = rxq.elapsed]_vars
    /\ ((rxq.st = "receiving" /\ rxq.timeout # 0) ~> rxq.st = "returned")
    /\ ((rxq.st = "receiving" /\ rxq.max # 0 /\ rxq.got = rxq.max) ~> rxq.st = "returned")

\* A call with max_rx_pkts 2 and timeout_ns 2 returned on the packet count
\* before the timeout, with a third packet left in the queue.
C33_Witness ==
    /\ rxq.st = "returned"
    /\ rxq.max = 2 /\ rxq.timeout = 2
    /\ rxq.num_rx_pkts = 2
    /\ rxq.elapsed = 1
    /\ rxq.pending = 1

\* The step is a call of a capability query.
CapQueryCalled ==
    lastCall' # lastCall /\ \E q \in CapQueries : lastCall'.op = "doca_rdma_cap_" \o q

\* C34: a capability query succeeds whatever the state of the caller's
\* context, also when no context has been constructed, and leaves every
\* context, property, task pool, task, connection and callback as it was.
C34_CapabilityQueriesChangeNothing ==
    [][CapQueryCalled
          => /\ lastCall'.code = DOCA_SUCCESS
             /\ lastCall'.pre = ctx[lastCall'.side]
             /\ ctx' = ctx /\ props' = props /\ numTasks' = numTasks /\ task' = task
             /\ conn' = conn /\ wire' = wire /\ listening' = listening
             /\ inPoll' = inPoll /\ cb' = cb /\ kind' = kind]_vars

\* The maximal send queue size was queried before any context was constructed.
C34_Witness ==
    /\ lastCall.op = "doca_rdma_cap_get_max_send_queue_size"
    /\ lastCall.pre = NoCtx
    /\ lastCall.code = DOCA_SUCCESS
    /\ \A s \in Sides : ctx[s] = NoCtx /\ numTasks[s] = 0

\* The bytes of a word of w bits in the order of their addresses, as a host of
\* the byte order of reg stores the word.
MemoryBytes(w, x) ==
    [k \in 1 .. (w \div 8) |->
        LET low == IF reg.endian = "little" THEN 8 * (k - 1) ELSE 8 * ((w \div 8) - k)
        IN  {i - low : i \in x \cap (low .. (low + 7))}]

\* The bytes of the number x of w bits, the most significant byte first.
BigEndianBytes(w, x) ==
    [k \in 1 .. (w \div 8) |->
        LET low == 8 * ((w \div 8) - k)
        IN  {i - low : i \in x \cap (low .. (low + 7))}]

MaskBuilt == reg.macro \in {"GENMASK", "SET", "GET", "P_SET"}

\* C35: for every family and every 0 <= l <= h < W the mask has exactly the
\* bits l..h set, as a host order number for U8 and stored most significant
\* byte first for BE16 and BE32, on a host of either byte order; no
\* intermediate value of the computation leaves the W bits, also for l = 0
\* and for h = W - 1.
C35_GenMaskSetsBitsLToH ==
    MaskBuilt =>
        LET w == Width(reg.family)
            bits == reg.l .. reg.h
        IN  /\ ~ reg.overflow
            /\ reg.family = "U8" => reg.mask = bits
            /\ reg.family # "U8" => MemoryBytes(w, reg.mask) = BigEndianBytes(w, bits)
            /\ reg.family = "BE16" => reg.mask = DOCA_HTOBE16(bits)
            /\ reg.family = "BE32" => reg.mask = DOCA_HTOBE32(bits)
            /\ Cardinality(reg.mask) = reg.h - reg.l + 1

\* DOCA_BE32_GENMASK(31, 0) on a little endian host: l = 0 and h = W - 1.
C35_Witness ==
    /\ reg.macro = "GENMASK" /\ reg.family = "BE32" /\ reg.endian = "little"
    /\ reg.h = 31 /\ reg.l = 0
    /\ reg.mask = AllOnes(32)

FieldWidth == reg.h - reg.l + 1

\* C39: for the mask of every field and every value v, SET(m, v) has no bit
\* outside m and is SET of v truncated to the width of the field, and
\* GET(m, SET(m, v)) is v truncated to the width of the field: v itself when v
\* fits the field.
C39_GetOfSetIsValue ==
    /\ reg.macro \in {"SET", "GET"}
          => /\ reg.set \subseteq reg.mask
             /\ reg.set = SET(reg.family, reg.mask, Truncate(FieldWidth, reg.v))
    /\ reg.macro = "GET"
          => /\ reg.get = Truncate(FieldWidth, reg.v)
             /\ reg.v \subseteq AllOnes(FieldWidth) => reg.get = reg.v

\* A non-zero value that fits a BE16 field above bit 0 was set and read back
\* on a little endian host.
C39_Witness ==
    /\ reg.macro = "GET" /\ reg.family = "BE16" /\ reg.endian = "little"
    /\ reg.l > 8 /\ reg.h > reg.l
    /\ reg.v # {} /\ reg.v \subseteq AllOnes(FieldWidth)
    /\ reg.get = reg.v

\* C40: P_SET leaves every bit outside the mask as it was, keeps every bit that
\* was set inside the mask, makes the field the OR of its old content and
\* SET(m, v), and applied a second time changes nothing.
C40_PSetOnlyOrs ==
    reg.macro = "P_SET"
        => /\ reg.field \ reg.mask = reg.p \ reg.mask
           /\ (reg.p \cap reg.mask) \subseteq reg.field
           /\ reg.sets = 1 => reg.field = reg.p \cup SET(reg.family, reg.mask, reg.v)
           /\ reg.sets = 2 => reg.field = reg.once

\* A value was set twice in a BE32 field that already held bits the value
\* does not have.
C40_Witness ==
    /\ reg.macro = "P_SET" /\ reg.sets = 2 /\ reg.family = "BE32"
    /\ reg.field # reg.p
    /\ (reg.p \cap reg.mask) \ SET(reg.family, reg.mask, reg.v) # {}

RingPositions == {queue.curr, queue.next, queue.head, queue.pushed}

\* C36: curr_position moves only at a commit; get_info reports the position
\* the library keeps; an enqueue leaves it alone and writes a slot inside the
\* queue that was free; commit_weak(n) advances the position by n in uint32_t,
\* which is n modulo the queue size on the masked index; mask_max_position + 1
\* is the queue size, a power of two, and every masked position is a slot of
\* the queue, before and after the index passes 2^32.
C36_CurrPositionMovesAtCommit ==
    /\ [][queue' # queue
            => /\ queue'.last.op \notin {"commit_weak", "commit_strong"}
                     => queue'.curr = queue.curr
               /\ queue'.last.op = "get_info"
                     => /\ queue'.info.curr_position = queue.curr
                        /\ queue'.info.mask_max_position = queue.mask
               /\ queue'.last.op = "enqueue"
                     => /\ queue'.last.at \in DOMAIN queue.slot
                        /\ queue.slot[queue'.last.at] = 0
               /\ queue'.last.op = "commit_weak"
                     => /\ queue'.curr = AddIndex(queue.curr, queue'.last.n)
                        /\ Masked(queue'.curr, queue.mask)
                              = (Masked(queue.curr, queue.mask) + queue'.last.n) % RingSize]_vars
    /\ [](/\ IsPowerOfTwo(queue.mask + 1)
          /\ DOMAIN queue.slot = 0 .. queue.mask
          /\ \A position \in RingPositions :
                /\ Masked(position, queue.mask) \in DOMAIN queue.slot
                /\ Masked(position, queue.mask) = position.lo % RingSize)

\* A commit_weak moved curr_position past 2^32 while the transport still
\* executes descriptors below it.
C36_Witness ==
    /\ queue.mode = "weak"
    /\ queue.last.op = "commit_weak" /\ queue.last.n = 3
    /\ queue.curr = Index32(1, 0)
    /\ queue.head.hi = LimbBase - 1

Occupied == {p \in DOMAIN queue.slot : queue.slot[p] # 0}

\* C37: the positions the strong enqueues reserve are consecutive in the order
\* of the reservations; two calls in progress hold different positions and
\* different slots, none of them a slot that holds a descriptor not yet
\* executed; and once the calls have returned, every slot from the oldest
\* descriptor to the last reserved position is written.
C37_StrongReservesDistinctConsecutive ==
    queue.mode = "strong"
        => /\ \A k \in 1 .. (Len(queue.granted) - 1) :
                 queue.granted[k + 1] = AddIndex(queue.granted[k], 1)
           /\ \A a, b \in queue.holds :
                 a # b => /\ queue.held[a] # queue.held[b]
                          /\ Masked(queue.held[a], queue.mask) # Masked(queue.held[b], queue.mask)
           /\ \A th \in queue.holds : queue.slot[Masked(queue.held[th], queue.mask)] = 0
           /\ Cardinality(Occupied) = queue.inside
           /\ queue.holds = {}
                 => /\ AddIndex(queue.head, queue.inside) = queue.next
                    /\ \A k \in 0 .. (queue.inside - 1) :
                          queue.slot[Masked(AddIndex(queue.head, k), queue.mask)] # 0

\* Two strong enqueues are in progress at once, on a ring in its second round.
C37_Witness ==
    /\ queue.mode = "strong"
    /\ Cardinality(queue.holds) >= 2
    /\ Len(queue.granted) > RingSize

\* The states of a task slot: not allocated, owned by the caller and not
\* submitted yet (Free), owned by the engine (Submitted), handed back to the
\* caller by its completion callback (Completed).
TaskStates == {"Pooled", "Allocated", "Submitted", "Completed"}

\* The step is a call of API function op on task t of the client: the call is
\* the last one, and it is a new one or it changed the state of the task.
TaskCall(op, t) ==
    /\ lastCall'.op = op /\ lastCall'.id = t
    /\ lastCall' # lastCall \/ (task'["client"][t].st # task["client"][t].st /\ cb' = cb)

====
